---- MODULE Spec2Model ----
(***************************************************************************)
(* Linear-scan register allocator with live-range splitting                *)
(* (src/src/linearscan/allocator.rs, src/src/linearscan/graph.rs).         *)
(*                                                                         *)
(* Interval, block and register ids are 1-based here (0 is Option::None);  *)
(* instruction positions (InstrId) are 0-based as in the source.           *)
(***************************************************************************)
EXTENDS Integers, Sequences, FiniteSets, TLC

VARIABLES
  program,       \* the graph as the builder left it
  instructions,  \* Graph.instructions after flatten: position -> Instruction
  blocks,        \* Graph.blocks after flatten and liveness, in list order
  intervals,     \* Graph.intervals: Seq of Interval
  gaps,          \* Graph.gaps: position -> Seq of GapAction
  registers,     \* GroupHelper::registers().len() of every group
  physical,      \* Graph.physical: group -> register -> id of the fixed interval
  state,         \* AllocatorState of the running walk_intervals
  pc,            \* position inside allocate()
  group_idx,     \* index into groups() of the group being walked
  results,       \* `results` of allocate(): spill_count per walked group
  result,        \* what allocate() returned: "none", "ok", an Err, "panic"
  hist,          \* observations of the last step (for the properties)
  graph          \* the Graph a host is building through the builder calls

vars == <<program, instructions, blocks, intervals, gaps, registers, physical, state, pc,
          group_idx, results, result, hist, graph>>

----------------------------------------------------------------------------
(* Bounds of the model *)

\* the most registers a group has
NumRegs == 2

\* groups() of the host: groups are 0 .. NumGroups-1
NumGroups == 2

\* uint::max_value, as far as TLC's integers reach; only ever compared
UintMax == 2147483647

Groups == 0 .. (NumGroups - 1)
Registers == 0 .. (registers - 1)

----------------------------------------------------------------------------
(* Values, use kinds, ranges *)

VirtualVal(g) == [tag |-> "Virtual", group |-> g, n |-> 0]
RegisterVal(g, r) == [tag |-> "Register", group |-> g, n |-> r]
StackVal(g, s) == [tag |-> "Stack", group |-> g, n |-> s]

UseAny(g) == [tag |-> "UseAny", group |-> g, reg |-> 0]
UseRegister(g) == [tag |-> "UseRegister", group |-> g, reg |-> 0]
UseFixed(g, r) == [tag |-> "UseFixed", group |-> g, reg |-> r]
\* Option<UseKind>::None of result_kind()
NoKind == [tag |-> "None", group |-> 0, reg |-> 0]

is_virtual(v) == v.tag = "Virtual"
is_fixed(k) == k.tag = "UseFixed"
is_any(k) == k.tag = "UseAny"

LiveRange(s, e) == [start |-> s, end |-> e]
Use(k, p) == [kind |-> k, pos |-> p]

\* Interval::new
NewInterval(g) ==
  [value |-> VirtualVal(g), hint |-> 0, ranges |-> <<>>, parent |-> 0,
   uses |-> <<>>, children |-> <<>>, fixed |-> FALSE]

\* LiveRange::covers
RangeCovers(r, pos) == r.start <= pos /\ pos < r.end

\* Interval::covers
Covers(i, pos) == \E k \in DOMAIN i.ranges : RangeCovers(i.ranges[k], pos)

\* Interval::start, Interval::end (the callers guard the non-empty assertion)
Start(i) == i.ranges[1].start
End(i) == i.ranges[Len(i.ranges)].end

\* LiveRange::get_intersection; -1 is None
RangeIntersection(a, b) ==
  IF RangeCovers(a, b.start) THEN b.start
  ELSE IF b.start < a.start /\ a.start < b.end THEN a.start
  ELSE -1

\* Graph::get_intersection: first hit in the order of the two nested loops
RECURSIVE IntersectFrom(_, _, _, _)
IntersectFrom(ra, rb, i, j) ==
  IF i > Len(ra) THEN -1
  ELSE IF j > Len(rb) THEN IntersectFrom(ra, rb, i + 1, 1)
  ELSE LET p == RangeIntersection(ra[i], rb[j])
       IN IF p # -1 THEN p ELSE IntersectFrom(ra, rb, i, j + 1)

get_intersection(iv, a, b) == IntersectFrom(iv[a].ranges, iv[b].ranges, 1, 1)

\* Interval::next_fixed_use; a use with pos = -1 is None
NoUse == Use(NoKind, -1)

FirstUse(uses, P(_)) ==
  LET hits == {k \in DOMAIN uses : P(uses[k])}
  IN IF hits = {} THEN NoUse
     ELSE uses[CHOOSE k \in hits : \A m \in hits : k <= m]

next_fixed_use(i, after) ==
  LET P(u) == is_fixed(u.kind) /\ u.pos >= after IN FirstUse(i.uses, P)

\* Interval::next_use
next_use(i, after) ==
  LET P(u) == u.pos >= after /\ ~is_any(u.kind) IN FirstUse(i.uses, P)

\* Interval::last_use
last_use(i, before) ==
  LET hits == {k \in DOMAIN i.uses :
                 i.uses[k].pos <= before /\ ~is_any(i.uses[k].kind)}
  IN IF hits = {} THEN NoUse
     ELSE i.uses[CHOOSE k \in hits : \A m \in hits : k >= m]

----------------------------------------------------------------------------
(* Instructions and their kinds (KindHelper for InstrKind<K>)               *)
(* A User kind is the record of what the host's KindHelper answers.         *)

UserKind(clob, tmp, uk, rk) ==
  [tag |-> "User", clobbers |-> clob, temporary |-> tmp, use_kind |-> uk,
   result_kind |-> rk]

\* Gap: clobbers nothing, no temporaries, no result
GapKind ==
  [tag |-> "Gap", clobbers |-> {}, temporary |-> <<>>, use_kind |-> <<>>,
   result_kind |-> NoKind]

\* ToPhi(g): clobbers nothing, UseAny(g) operand, UseAny(g) result
ToPhiKind(g) ==
  [tag |-> "ToPhi", clobbers |-> {}, temporary |-> <<>>,
   use_kind |-> <<UseAny(g)>>, result_kind |-> UseAny(g)]

\* Graph::create_gap
create_gap(b) ==
  [kind |-> GapKind, block |-> b, output |-> 0, inputs |-> <<>>,
   temporary |-> <<>>]

----------------------------------------------------------------------------
(* Flatten: instruction ids rewritten densely in block-list order, a gap   *)
(* before the first instruction of a block, between every pair and after   *)
(* the last.  A program p is                                               *)
(*   [phis: Seq(group), blocks: Seq([instrs, successors, loop_depth])]     *)
(* and an instruction of p is [kind, phi, ins]: phi = k > 0 makes it the   *)
(* ToPhi of phi k, ins are value numbers (phi k is value k, the j-th other *)
(* result is value Len(phis) + j).                                         *)

\* whether the flattener closes a block with a gap
TrailingGap == TRUE

HasNewOutput(op) == op.kind.result_kind.tag # "None" /\ op.phi = 0

RECURSIVE NewTemporaries(_, _, _)
NewTemporaries(tmp, k, acc) ==
  IF k > Len(tmp) THEN acc
  ELSE NewTemporaries(tmp, k + 1, Append(acc, NewInterval(tmp[k])))

\* Instruction::new / new_empty followed by BlockBuilder::add_existing
FlattenInstr(acc, b, op) ==
  LET newOut == HasNewOutput(op)
      ivs1 == IF newOut THEN Append(acc.ivs, NewInterval(op.kind.result_kind.group))
              ELSE acc.ivs
      out == IF newOut THEN Len(ivs1) ELSE IF op.phi > 0 THEN op.phi ELSE 0
      ivs2 == NewTemporaries(op.kind.temporary, 1, ivs1)
      instr == [kind |-> op.kind, block |-> b, output |-> out,
                inputs |-> [k \in DOMAIN op.ins |-> acc.vals[op.ins[k]]],
                temporary |-> [k \in DOMAIN op.kind.temporary |-> Len(ivs1) + k]]
  IN [acc EXCEPT !.instrs = Append(@, instr),
                 !.ivs = ivs2,
                 !.vals = IF newOut THEN Append(@, out) ELSE @]

RECURSIVE FlattenInstrs(_, _, _, _)
FlattenInstrs(acc, b, ops, k) ==
  IF k > Len(ops) THEN acc
  ELSE LET a1 == FlattenInstr(acc, b, ops[k])
           a2 == IF k < Len(ops) \/ TrailingGap
                 THEN [a1 EXCEPT !.instrs = Append(@, create_gap(b))]
                 ELSE a1
       IN FlattenInstrs(a2, b, ops, k + 1)

RECURSIVE FlattenBlocks(_, _, _)
FlattenBlocks(p, b, acc) ==
  IF b > Len(p.blocks) THEN acc
  ELSE LET from == Len(acc.instrs)
           a1 == [acc EXCEPT !.instrs = Append(@, create_gap(b))]
           a2 == FlattenInstrs(a1, b, p.blocks[b].instrs, 1)
           blk == [start |-> from, end |-> Len(a2.instrs),
                   successors |-> p.blocks[b].successors,
                   loop_depth |-> p.blocks[b].loop_depth]
       IN FlattenBlocks(p, b + 1, [a2 EXCEPT !.blocks = Append(@, blk)])

Flatten(p) ==
  LET phiIvs == [k \in DOMAIN p.phis |-> NewInterval(p.phis[k])]
      acc == FlattenBlocks(p, 1,
               [instrs |-> <<>>, blocks |-> <<>>, ivs |-> phiIvs,
                vals |-> [k \in DOMAIN p.phis |-> k]])
  IN [instructions |-> [pos \in 0 .. (Len(acc.instrs) - 1) |-> acc.instrs[pos + 1]],
      blocks |-> acc.blocks,
      intervals |-> acc.ivs]

\* BlockBuilder::to_phi: the phi's output takes the output of the first
\* bound input as its hint
PhiHint(f, phi) ==
  LET ps == {pos \in DOMAIN f.instructions :
               f.instructions[pos].kind.tag = "ToPhi"
               /\ f.instructions[pos].output = phi}
  IN IF ps = {} THEN 0
     ELSE f.instructions[CHOOSE x \in ps : \A y \in ps : x <= y].inputs[1]

----------------------------------------------------------------------------
(* Liveness: live_gen / live_kill per block and the fixed point over       *)
(* live_in / live_out.                                                     *)

BlockPositions(blk) == blk.start .. (blk.end - 1)

SeqRange(s) == {s[k] : k \in DOMAIN s}

\* defined inside the block
LiveKill(instrs, blk) ==
  {instrs[pos].output : pos \in {q \in BlockPositions(blk) : instrs[q].output # 0}}

\* read inside the block before any definition inside the block
LiveGen(instrs, blk) ==
  {v \in UNION {SeqRange(instrs[pos].inputs) : pos \in BlockPositions(blk)} :
     \E pos \in BlockPositions(blk) :
        /\ v \in SeqRange(instrs[pos].inputs)
        /\ \A q \in blk.start .. (pos - 1) : instrs[q].output # v}

RECURSIVE LiveInFix(_, _, _)
LiveInFix(instrs, blks, in) ==
  LET out == [b \in DOMAIN blks |->
                UNION {in[s] : s \in SeqRange(blks[b].successors)}]
      next == [b \in DOMAIN blks |->
                 LiveGen(instrs, blks[b]) \cup (out[b] \ LiveKill(instrs, blks[b]))]
  IN IF next = in THEN in ELSE LiveInFix(instrs, blks, next)

liveness_analysis(instrs, blks) ==
  LET in == LiveInFix(instrs, blks, [b \in DOMAIN blks |-> {}])
  IN [b \in DOMAIN blks |->
        [start |-> blks[b].start, end |-> blks[b].end,
         successors |-> blks[b].successors,
         loop_depth |-> blks[b].loop_depth,
         live_in |-> in[b],
         live_out |-> UNION {in[s] : s \in SeqRange(blks[b].successors)}]]

\* Graph::is_gap
is_gap(pos) == instructions[pos].kind.tag = "Gap"

\* Graph::clobbers
clobbers(g, pos) == g \in instructions[pos].kind.clobbers

\* a graph in which no position counts as a block boundary
block_boundary_never(pos) == FALSE

\* Graph::block_boundary: start or end of the block the instruction is in
block_boundary(pos) ==
  LET block == blocks[instructions[pos].block]
  IN block.start = pos \/ block.end = pos

----------------------------------------------------------------------------
(* The mutable part of the graph and of the allocator state, threaded      *)
(* through the operations:                                                 *)
(*   c = [iv: intervals, gaps: gap states, st: AllocatorState,             *)
(*        status: "ok" | "panic" (a failed assertion) | an Err string,     *)
(*        log: what the operations did, in order]                          *)

ErrTemporary == "Call instruction can't have temporary registers"
ErrImpossible == "Incorrect input, allocation impossible"

Panic(c) == [c EXCEPT !.status = "panic"]

\* an observation appended to the log threaded through the operations
Event(ev, id, a, b, d) == [ev |-> ev, id |-> id, a |-> a, b |-> b, d |-> d]

Log(c, e) == [c EXCEPT !.log = Append(@, e)]

Move(from, to) == [kind |-> "Move", from |-> from, to |-> to]

\* AllocatorState at the top of walk_intervals
NewState(g) ==
  [group |-> g, spill_count |-> 0, spills |-> <<>>, unhandled |-> <<>>,
   active |-> <<>>, inactive |-> <<>>]

\* an add_range that puts the new range last
add_range_last(c, id, start, end) ==
  IF c.status # "ok" THEN c
  ELSE [c EXCEPT !.iv[id].ranges = Append(@, LiveRange(start, end))]

\* Interval::add_range
add_range(c, id, start, end) ==
  IF c.status # "ok" THEN c
  ELSE LET rs == c.iv[id].ranges
       IN IF ~(Len(rs) = 0 \/ rs[1].start >= end)
          THEN Log(Panic(c), Event("add_range failed", id, start, end, rs[1].start))
          ELSE IF Len(rs) > 0 /\ rs[1].start = end
               THEN [c EXCEPT !.iv[id].ranges[1].start = start]
               ELSE [c EXCEPT !.iv[id].ranges = <<LiveRange(start, end)>> \o @]

\* Interval::add_use
add_use(c, id, kind, pos) ==
  IF c.status # "ok" THEN c
  ELSE LET us == c.iv[id].uses
       IN IF ~(Len(us) = 0 \/ us[1].pos > pos \/ us[1].kind.group = kind.group)
          THEN Panic(c)
          ELSE [c EXCEPT !.iv[id].uses = <<Use(kind, pos)>> \o @]

\* Graph::optimal_split_pos; -1 when an assertion (or the instruction
\* lookup of is_gap) fails
BlockEndIn(b, start, end) == start < blocks[b].end /\ blocks[b].end <= end

optimal_split_pos(group, start, end) ==
  IF start = end THEN end
  ELSE LET cand == {b \in DOMAIN blocks : BlockEndIn(b, start, end)}
           shallow == {b \in cand :
                         \A o \in cand : blocks[b].loop_depth <= blocks[o].loop_depth}
           best_pos == IF cand = {} THEN end
                       ELSE blocks[CHOOSE b \in shallow : \A o \in shallow : o <= b].end
       IN IF best_pos \notin DOMAIN instructions THEN -1
          ELSE IF ~is_gap(best_pos) /\ ~clobbers(group, best_pos)
               THEN IF start < best_pos - 1 /\ best_pos - 1 <= end
                    THEN best_pos - 1 ELSE -1
               ELSE IF start < best_pos /\ best_pos <= end THEN best_pos ELSE -1

\* a call of optimal_split_pos by the allocator, with what it returned
Asked(c, group, start, end) ==
  Log(c, Event("optimal_split_pos", group, start, end,
               optimal_split_pos(group, start, end)))

\* the two filter_mapped passes of split_at over the ranges
ParentRanges(rs, pos) ==
  LET kept == SelectSeq(rs, LAMBDA r : r.end <= pos \/ r.start < pos)
  IN [k \in DOMAIN kept |->
        IF kept[k].end <= pos THEN kept[k] ELSE LiveRange(kept[k].start, pos)]

\* a split that moves the ranges after pos to the child without cutting
\* the range pos falls in
ChildRanges_uncut(rs, pos) == SelectSeq(rs, LAMBDA r : r.end > pos)

ChildRanges(rs, pos) ==
  LET moved == SelectSeq(rs, LAMBDA r : r.end > pos)
  IN [k \in DOMAIN moved |->
        IF moved[k].start < pos THEN LiveRange(pos, moved[k].end) ELSE moved[k]]

\* a split whose boundary is strict at a call too
StaysOnParent_strict(u, pos, split_on_call) == u.pos < pos

\* a split that leaves every use on the piece that is split
StaysOnParent_always(u, pos, split_on_call) == TRUE

\* which uses stay on the piece that is split
StaysOnParent(u, pos, split_on_call) ==
  (split_on_call /\ u.pos <= pos) \/ (~split_on_call /\ u.pos < pos)

\* an insertion that puts the new child last
InsertAt_last(s, index, x) == Append(s, x)

InsertAt(s, index, x) ==
  SubSeq(s, 1, index) \o <<x>> \o SubSeq(s, index + 1, Len(s))

\* the piece of `parent` that split_at cuts: the parent if it covers pos,
\* else the last child that does
SplitParent(iv, parent, pos) ==
  IF Covers(iv[parent], pos) THEN parent
  ELSE LET ch == iv[parent].children
           hit == {k \in DOMAIN ch : Covers(iv[ch[k]], pos)}
       IN IF hit = {} THEN parent
          ELSE ch[CHOOSE k \in hit : \A m \in hit : m <= k]

\* Graph::split_at; the child's id is Len(c.iv) + 1
split_at(c, id, pos) ==
  IF c.status # "ok" THEN c
  ELSE IF ~(Len(c.iv[id].ranges) > 0 /\ Start(c.iv[id]) < pos) THEN Panic(c)
  ELSE IF pos \notin DOMAIN instructions THEN Panic(c)
  ELSE IF ~(is_gap(pos) \/ clobbers(c.iv[id].value.group, pos)) THEN Panic(c)
  ELSE
    LET group == c.iv[id].value.group
        child == Len(c.iv) + 1
        parent == IF c.iv[id].parent # 0 THEN c.iv[id].parent ELSE id
        split_parent == SplitParent(c.iv, parent, pos)
    IN IF ~Covers(c.iv[split_parent], pos) THEN Panic(c)
       ELSE
         LET sp == c.iv[split_parent]
             split_at_call == clobbers(group, pos)
             child_ranges == ChildRanges(sp.ranges, pos)
             parent_ranges == ParentRanges(sp.ranges, pos)
         IN IF Len(child_ranges) = 0 \/ Len(parent_ranges) = 0
            THEN [c EXCEPT !.status = "panic",
                           !.gaps[pos] = IF split_at_call \/ ~block_boundary(pos)
                                         THEN Append(@, Move(split_parent, child))
                                         ELSE @]
            ELSE
              LET child_iv ==
                    [value |-> VirtualVal(group), hint |-> split_parent,
                     ranges |-> child_ranges, parent |-> parent,
                     uses |-> SelectSeq(sp.uses,
                                LAMBDA u : ~StaysOnParent(u, pos, split_at_call)),
                     children |-> <<>>, fixed |-> FALSE]
                  iv1 == [Append(c.iv, child_iv) EXCEPT
                            ![split_parent].ranges = parent_ranges,
                            ![split_parent].uses =
                               SelectSeq(sp.uses,
                                 LAMBDA u : StaysOnParent(u, pos, split_at_call))]
                  ch == iv1[parent].children
                  before == {k \in DOMAIN ch : End(iv1[ch[k]]) <= pos}
                  index == IF before = {} THEN 0
                           ELSE CHOOSE k \in before : \A m \in before : m <= k
                  gap == IF split_at_call \/ ~block_boundary(pos)
                         THEN Append(c.gaps[pos], Move(split_parent, child))
                         ELSE c.gaps[pos]
              IN [c EXCEPT !.iv = [iv1 EXCEPT ![parent].children = InsertAt(ch, index, child)],
                           !.gaps[pos] = gap,
                           !.log = @ \o
                             <<Event("split_at", split_parent, pos, Start(sp), child),
                               Event("split", id, pos, 0,
                                     [piece |-> split_parent, id |-> id,
                                      root |-> parent, pos |-> pos,
                                      child |-> child, uses |-> sp.uses,
                                      kept |-> iv1[split_parent].uses,
                                      moved |-> child_iv.uses,
                                      ranges |-> sp.ranges,
                                      gap |-> c.gaps[pos], gap_after |-> gap,
                                      children |-> ch])>>]

----------------------------------------------------------------------------
(* sort_unhandled: extra::sort::quick_sort with the comparison             *)
(* start(left) <= start(right).  The sort is not stable: it partitions     *)
(* around the middle element, which it first swaps to the right end.       *)

SwapElems(arr, i, j) == [arr EXCEPT ![i] = arr[j], ![j] = arr[i]]

RECURSIVE part(_, _, _, _, _)
\* the loop of `part` once the pivot sits at `right`; returns the array and
\* the final storage index
part(iv, arr, i, right, storage_index) ==
  IF i >= right
  THEN [arr |-> SwapElems(arr, storage_index, right), pivot |-> storage_index]
  ELSE IF Start(iv[arr[i]]) <= Start(iv[arr[right]])
       THEN part(iv, SwapElems(arr, i, storage_index), i + 1, right, storage_index + 1)
       ELSE part(iv, arr, i + 1, right, storage_index)

RECURSIVE qsort(_, _, _, _)
qsort(iv, arr, left, right) ==
  IF right > left
  THEN LET pivot == ((left - 1) + (right - 1)) \div 2 + 1
           p == part(iv, SwapElems(arr, pivot, right), left, right, left)
       IN qsort(iv, qsort(iv, p.arr, left, p.pivot - 1), p.pivot + 1, right)
  ELSE arr

quick_sort(iv, arr) == IF Len(arr) = 0 THEN arr ELSE qsort(iv, arr, 1, Len(arr))

sort_unhandled(c) ==
  IF c.status # "ok" THEN c
  ELSE [c EXCEPT !.st.unhandled = quick_sort(c.iv, @)]

\* the tail of AllocatorHelper::split: push the child, sort unhandled
PushChild(c1) ==
  IF c1.status # "ok" THEN c1
  ELSE sort_unhandled([c1 EXCEPT !.st.unhandled = Append(@, Len(c1.iv))])

\* AllocatorHelper::split with At(pos): split_at, push the child, sort
split(c, current, split_pos) ==
  IF c.status # "ok" THEN c
  ELSE IF split_pos = -1 THEN Panic(c)
  ELSE PushChild(split_at(c, current, split_pos))

\* AllocatorHelper::split with Between(start, end)
split_between(c, current, start, end) ==
  IF c.status # "ok" THEN c
  ELSE split(Asked(c, c.st.group, start, end), current,
             optimal_split_pos(c.st.group, start, end))

\* a get_spill that hands out slot 0 every time
spill_value_zero(st) == StackVal(st.group, 0)

\* AllocatorState::get_spill: the value handed out ...
spill_value(st) ==
  IF Len(st.spills) > 0 THEN st.spills[1] ELSE StackVal(st.group, st.spill_count)

\* a get_spill that does not count the slot it hands out
spill_taken_uncounted(st) ==
  IF Len(st.spills) > 0 THEN [st EXCEPT !.spills = Tail(@)] ELSE st

\* ... and the state it leaves
spill_taken(st) ==
  IF Len(st.spills) > 0 THEN [st EXCEPT !.spills = Tail(@)]
  ELSE [st EXCEPT !.spill_count = @ + 1]

\* get_spill whose slot is taken but never stored in the interval
get_spill_dropped(c, id) ==
  IF c.status # "ok" THEN c ELSE [c EXCEPT !.st = spill_taken(c.st)]

\* `interval.value = state.get_spill()`
get_spill(c, id) ==
  IF c.status # "ok" THEN c
  ELSE [c EXCEPT !.iv[id].value = spill_value(c.st), !.st = spill_taken(c.st)]

\* AllocatorState::to_handled
to_handled(st, value) ==
  IF value.tag = "Stack" THEN [st EXCEPT !.spills = Append(@, value)] ELSE st

----------------------------------------------------------------------------
(* build_ranges and split_fixed *)

\* ascending enumeration of a set of ids (BitvSet / SmallIntMap iteration)
RECURSIVE Ascending(_)
Ascending(S) ==
  IF S = {} THEN <<>>
  ELSE LET m == CHOOSE x \in S : \A y \in S : x <= y
       IN <<m>> \o Ascending(S \ {m})

RECURSIVE add_ranges(_, _, _, _, _)
\* add_range(start, end) on each interval of the list `ids`, from index k
add_ranges(c, ids, k, start, end) ==
  IF k > Len(ids) THEN c
  ELSE add_ranges(add_range(c, ids[k], start, end), ids, k + 1, start, end)

\* a build_ranges in which a call blocks no register
BuildClobbers_none(c, phys, pos) == c

\* lines 670-682: a call blocks every physical register of a group it clobbers
BuildClobbers(c, phys, pos) ==
  LET hit == {phys[g][r] : g \in instructions[pos].kind.clobbers \cap Groups,
                           r \in Registers}
  IN add_ranges(c, Ascending(hit), 1, pos, pos + 1)

\* lines 684-706: the output
BuildOutput(c, pos) ==
  LET instr == instructions[pos]
      output == instr.output
  IN IF c.status # "ok" \/ output = 0 THEN c
     ELSE LET group == c.iv[output].value.group
              p == IF group \in instr.kind.clobbers THEN pos + 1 ELSE pos
              c1 == IF Len(c.iv[output].ranges) # 0
                    THEN [c EXCEPT !.iv[output].ranges[1].start = p]
                    ELSE add_range(c, output, p, p + 1)
          IN IF instr.kind.result_kind.tag = "None" THEN Panic(c1)
             ELSE add_use(c1, output, instr.kind.result_kind, p)

RECURSIVE BuildTemporaries_unchecked(_, _, _)
\* temporaries built without looking at what the instruction clobbers
BuildTemporaries_unchecked(c, pos, k) ==
  LET instr == instructions[pos]
  IN IF c.status # "ok" \/ k > Len(instr.temporary) THEN c
     ELSE LET tmp == instr.temporary[k]
              group == c.iv[tmp].value.group
          IN BuildTemporaries_unchecked(
               add_use(add_range(c, tmp, pos, pos + 1), tmp,
                       UseRegister(group), pos),
               pos, k + 1)

RECURSIVE BuildTemporaries(_, _, _)
\* lines 708-716: the temporaries, from index k
BuildTemporaries(c, pos, k) ==
  LET instr == instructions[pos]
  IN IF c.status # "ok" \/ k > Len(instr.temporary) THEN c
     ELSE LET tmp == instr.temporary[k]
              group == c.iv[tmp].value.group
          IN IF group \in instr.kind.clobbers
             THEN [c EXCEPT !.status = ErrTemporary]
             ELSE BuildTemporaries(
                    add_use(add_range(c, tmp, pos, pos + 1), tmp,
                            UseRegister(group), pos),
                    pos, k + 1)

RECURSIVE BuildInputs(_, _, _, _)
\* lines 718-726: the inputs, from operand index k
BuildInputs(c, pos, block_from, k) ==
  LET instr == instructions[pos]
  IN IF c.status # "ok" \/ k > Len(instr.inputs) THEN c
     ELSE LET input == instr.inputs[k]
              c1 == IF ~Covers(c.iv[input], pos)
                    THEN add_range(c, input, block_from, pos)
                    ELSE c
          IN BuildInputs(add_use(c1, input, instr.kind.use_kind[k], pos),
                         pos, block_from, k + 1)

\* one turn of the loop over the instructions of a block (lines 667-727)
BuildInstr(c, phys, pos, block_from) ==
  BuildInputs(
    BuildTemporaries(BuildOutput(BuildClobbers(c, phys, pos), pos), pos, 1),
    pos, block_from, 1)

RECURSIVE BuildInstrs(_, _, _, _)
\* the instructions of a block in reverse, from pos down to block_from
BuildInstrs(c, phys, pos, block_from) ==
  IF c.status # "ok" \/ pos < block_from THEN c
  ELSE BuildInstrs(BuildInstr(c, phys, pos, block_from), phys, pos - 1, block_from)

RECURSIVE BuildBlocks(_, _, _)
\* the blocks in reverse, from block b down to the first (lines 653-728)
BuildBlocks(c, phys, b) ==
  IF c.status # "ok" \/ b < 1 THEN c
  ELSE LET blk == blocks[b]
           c1 == add_ranges(c, Ascending(blk.live_out), 1, blk.start, blk.end)
       IN BuildBlocks(BuildInstrs(c1, phys, blk.end - 1, blk.start), phys, b - 1)

FixedUses(i) == SelectSeq(i.uses, LAMBDA u : is_fixed(u.kind))

RECURSIVE SplitFixedUses(_, _, _, _)
\* the inner loop of split_fixed (lines 751-760); i is 1-based
SplitFixedUses(c, cur, uses, i) ==
  IF c.status # "ok" \/ i >= Len(uses) THEN c
  ELSE LET split_pos == optimal_split_pos(uses[i].kind.group, uses[i].pos,
                                          uses[i + 1].pos)
           c1 == Asked(c, uses[i].kind.group, uses[i].pos, uses[i + 1].pos)
       IN SplitFixedUses(IF split_pos = -1 THEN Panic(c1)
                         ELSE split_at(c1, cur, split_pos),
                         cur, uses, i + 1)

RECURSIVE SplitFixedList(_, _, _)
SplitFixedList(c, list, k) ==
  IF c.status # "ok" \/ k > Len(list) THEN c
  ELSE SplitFixedList(
         SplitFixedUses(c, list[k], FixedUses(c.iv[list[k]]), 1), list, k + 1)

\* AllocatorHelper::split_fixed
split_fixed(c) ==
  SplitFixedList(c,
    Ascending({id \in DOMAIN c.iv : Len(FixedUses(c.iv[id])) > 0}), 1)

\* AllocatorHelper::build_ranges
build_ranges(c, phys) == split_fixed(BuildBlocks(c, phys, Len(blocks)))

\* allocate() lines 126-138: ids of the physical intervals, created after
\* the n intervals of the builder
PhysicalIds(n) ==
  [g \in Groups |-> [r \in Registers |-> n + g * registers + r + 1]]

\* fixed intervals that all name register 0 of their group
PhysicalIntervals_same ==
  [k \in 1 .. (NumGroups * registers) |->
     [NewInterval((k - 1) \div registers) EXCEPT
        !.value = RegisterVal((k - 1) \div registers, 0),
        !.fixed = TRUE]]

PhysicalIntervals ==
  [k \in 1 .. (NumGroups * registers) |->
     [NewInterval((k - 1) \div registers) EXCEPT
        !.value = RegisterVal((k - 1) \div registers, (k - 1) % registers),
        !.fixed = TRUE]]

----------------------------------------------------------------------------
(* The walker: free-register and blocked-register policies *)

Min(S) == CHOOSE x \in S : \A y \in S : x <= y

\* iter_active fails unless every active interval holds a register
ActiveOk(c) ==
  \A k \in DOMAIN c.st.active : c.iv[c.st.active[k]].value.tag = "Register"

\* iter_intersecting: the inactive intervals that intersect current
Intersecting(c, current) ==
  SelectSeq(c.st.inactive, LAMBDA id : get_intersection(c.iv, id, current) # -1)

IntersectingOk(c, current) ==
  LET inter == Intersecting(c, current)
  IN \A k \in DOMAIN inter : c.iv[inter[k]].value.tag = "Register"

\* get_hint: the register of the hint interval; -1 is None, -2 the failed
\* group assertion
get_hint(iv, current) ==
  LET h == iv[current].hint
  IN IF h = 0 THEN -1
     ELSE IF iv[h].value.tag # "Register" THEN -1
     ELSE IF iv[h].value.group # iv[current].value.group THEN -2
     ELSE iv[h].value.n

\* free_pos without lines 272-274: the registers of the active intervals
\* count as free
free_pos_without_active(c, current) ==
  LET inter == Intersecting(c, current)
  IN [r \in Registers |->
        Min({UintMax} \cup
            {get_intersection(c.iv, inter[k], current) :
               k \in {m \in DOMAIN inter : c.iv[inter[m]].value.n = r}})]

\* lines 270-283
free_pos(c, current) ==
  LET inter == Intersecting(c, current)
  IN [r \in Registers |->
        IF \E k \in DOMAIN c.st.active : c.iv[c.st.active[k]].value.n = r THEN 0
        ELSE Min({UintMax} \cup
                 {get_intersection(c.iv, inter[k], current) :
                    k \in {m \in DOMAIN inter : c.iv[inter[m]].value.n = r}})]

RECURSIVE select_max(_, _, _, _, _)
\* the loops of lines 304-316 / 442-453 from register i on; hint -1 is None
select_max(vec, hint, i, reg, max_pos) ==
  IF i > registers - 1 THEN [reg |-> reg, max_pos |-> max_pos]
  ELSE IF vec[i] > max_pos \/ (hint = i /\ vec[i] = max_pos)
       THEN select_max(vec, hint, i + 1, i, vec[i])
       ELSE select_max(vec, hint, i + 1, reg, max_pos)

\* lines 285-319 / 423-456: the fixed register, else the maximum
select_reg(interval, vec, hint) ==
  LET u == next_fixed_use(interval, 0)
  IN IF u.pos # -1 THEN [reg |-> u.kind.reg, max_pos |-> vec[u.kind.reg]]
     ELSE select_max(vec, hint, 0, 0, 0)

\* lines 352-363: after the split, spill a child without register uses and
\* give current the register
FreeSplit(c1, current, reg, max_pos, split_pos) ==
  IF c1.status # "ok" THEN c1
  ELSE LET child == Len(c1.iv)
           c2 == IF next_use(c1.iv[child], 0).pos = -1
                 THEN get_spill(c1, child)
                 ELSE c1
       IN Log([c2 EXCEPT !.iv[current].value = RegisterVal(c1.st.group, reg)],
              Event("free", current, reg, max_pos, split_pos))

\* a free policy that gives current the selected register for its whole
\* lifetime whenever the register is free at all
FreeDecide_whole(c, current, reg, max_pos) ==
  IF max_pos = 0 THEN [c |-> c, success |-> FALSE]
  ELSE [c |-> Log([c EXCEPT !.iv[current].value = RegisterVal(c.st.group, reg)],
                  Event("free", current, reg, max_pos, 0)),
        success |-> TRUE]

\* lines 321-366: what allocate_free_reg does with the register it selected
FreeDecide(c, current, reg, max_pos) ==
  LET group == c.st.group
      start == Start(c.iv[current])
      end == End(c.iv[current])
  IN IF max_pos = 0 THEN [c |-> c, success |-> FALSE]
     ELSE IF max_pos >= end
     THEN [c |-> Log([c EXCEPT !.iv[current].value = RegisterVal(group, reg)],
                     Event("free", current, reg, max_pos, 0)),
           success |-> TRUE]
     ELSE IF start + 1 >= max_pos THEN [c |-> c, success |-> FALSE]
     ELSE
       LET sp0 == optimal_split_pos(group, start, max_pos)
           before_call == sp0 = max_pos - 1 /\ clobbers(group, max_pos)
           split_pos == IF before_call THEN max_pos ELSE sp0
           c0 == Asked(c, group, start, max_pos)
       IN IF sp0 = -1 THEN [c |-> Panic(c0), success |-> FALSE]
          ELSE IF before_call /\ next_use(c.iv[current], max_pos).pos # max_pos
          THEN [c |-> c0, success |-> FALSE]
          ELSE [c |-> FreeSplit(split(c0, current, split_pos), current, reg,
                                max_pos, split_pos),
                success |-> TRUE]

FreeSelected(c, current, sel) == FreeDecide(c, current, sel.reg, sel.max_pos)

\* allocate_free_reg: [c, success]
allocate_free_reg(c, current) ==
  IF get_hint(c.iv, current) = -2 \/ ~ActiveOk(c) \/ ~IntersectingOk(c, current)
  THEN [c |-> Panic(c), success |-> FALSE]
  ELSE FreeSelected(c, current,
         select_reg(c.iv[current], free_pos(c, current), get_hint(c.iv, current)))

\* next_use(start) of the non-fixed intervals of `ids` that hold register r
NextUses(c, ids, r, start) ==
  {next_use(c.iv[ids[k]], start).pos :
     k \in {m \in DOMAIN ids : /\ ~c.iv[ids[m]].fixed
                               /\ c.iv[ids[m]].value.n = r
                               /\ next_use(c.iv[ids[m]], start).pos # -1}}

\* lines 404-421: block_pos
block_pos(c, current) ==
  LET inter == Intersecting(c, current)
  IN [r \in Registers |->
        LET hits == {k \in DOMAIN inter :
                       c.iv[inter[k]].fixed /\ c.iv[inter[k]].value.n = r}
        IN IF hits # {}
           THEN get_intersection(c.iv,
                  inter[CHOOSE k \in hits : \A m \in hits : m <= k], current)
           ELSE IF \E k \in DOMAIN c.st.active :
                     c.iv[c.st.active[k]].fixed /\ c.iv[c.st.active[k]].value.n = r
                THEN 0
                ELSE UintMax]

\* lines 378-421: use_pos
use_pos(c, current) ==
  LET inter == Intersecting(c, current)
      start == Start(c.iv[current])
  IN [r \in Registers |->
        IF \E k \in DOMAIN c.st.active :
             c.iv[c.st.active[k]].fixed /\ c.iv[c.st.active[k]].value.n = r
        THEN 0
        ELSE Min({UintMax}
                 \cup NextUses(c, c.st.active, r, start)
                 \cup NextUses(c, inter, r, start)
                 \cup {get_intersection(c.iv, inter[k], current) :
                         k \in {m \in DOMAIN inter :
                                  c.iv[inter[m]].fixed /\ c.iv[inter[m]].value.n = r}})]

\* lines 603-604: the piece split off takes a spill slot
SpillChild(c1) == get_spill(c1, Len(c1.iv))

\* lines 606-613: split the spilled piece again before its next register use
SplitAtNextUse(c2, id, spill_pos) ==
  IF c2.status # "ok" THEN c2
  ELSE LET u == next_use(c2.iv[Len(c2.iv)], spill_pos)
       IN IF u.pos # -1 THEN split_between(c2, id, spill_pos, u.pos) ELSE c2

\* lines 590-601: where an interval of to_split is cut
SpillSplit(c, id, spill_pos) ==
  LET lu == last_use(c.iv[id], spill_pos)
  IN split_between(c, id, IF lu.pos # -1 THEN lu.pos ELSE Start(c.iv[id]),
                   spill_pos)

RECURSIVE SplitAndSpill(_, _, _, _, _)
\* the loop of split_and_spill (lines 589-615) over to_split, from index k
SplitAndSpill(c, start, group, to_split, k) ==
  IF c.status # "ok" \/ k > Len(to_split) THEN c
  ELSE
    LET spill_pos == IF clobbers(group, start) \/ is_gap(start) THEN start
                     ELSE start - 1
    IN SplitAndSpill(
         SplitAtNextUse(SpillChild(SpillSplit(c, to_split[k], spill_pos)),
                        to_split[k], spill_pos),
         start, group, to_split, k + 1)

\* AllocatorHelper::split_and_spill
split_and_spill(c, current) ==
  IF c.status # "ok" THEN c
  ELSE IF c.iv[current].value.tag # "Register" THEN Panic(c)
  ELSE IF ~ActiveOk(c) \/ ~IntersectingOk(c, current) THEN Panic(c)
  ELSE LET reg == c.iv[current].value.n
           to_split ==
             SelectSeq(c.st.active, LAMBDA id : c.iv[id].value.n = reg)
             \o SelectSeq(Intersecting(c, current),
                          LAMBDA id : c.iv[id].value.n = reg)
       IN SplitAndSpill(c, Start(c.iv[current]), c.st.group, to_split, 1)

\* lines 479-490: current takes the register, is cut before the position
\* the register is blocked at, and the others are split and spilled
BlockedAssign(c1, current, bp) ==
  split_and_spill(
    IF bp <= End(c1.iv[current])
    THEN split_between(c1, current, Start(c1.iv[current]), bp)
    ELSE c1,
    current)

\* a blocked policy that gives up whenever every register is used before
\* current's first use, wherever that use is
BlockedDecide_strict(cb, current, reg, max_pos, bp) ==
  LET first_use == next_use(cb.iv[current], 0)
  IN IF first_use.pos = -1 THEN get_spill(cb, current)
     ELSE IF max_pos < first_use.pos
     THEN [cb EXCEPT !.status = ErrImpossible]
     ELSE BlockedAssign(
            [cb EXCEPT !.iv[current].value = RegisterVal(cb.st.group, reg)],
            current, bp[reg])

\* lines 458-491: what allocate_blocked_reg does with the register selected
BlockedDecide(cb, current, reg, max_pos, bp) ==
  LET start == Start(cb.iv[current])
      first_use == next_use(cb.iv[current], 0)
  IN IF first_use.pos = -1 THEN get_spill(cb, current)
     ELSE IF max_pos < first_use.pos
     THEN IF first_use.pos = start
          THEN [cb EXCEPT !.status = ErrImpossible]
          ELSE split_between(get_spill(cb, current), current, start,
                             first_use.pos)
     ELSE BlockedAssign(
            [cb EXCEPT !.iv[current].value = RegisterVal(cb.st.group, reg)],
            current, bp[reg])

BlockedSelected(c, current, sel, bp) ==
  BlockedDecide(
    Log(c, Event("blocked", current, next_use(c.iv[current], 0).pos,
                 sel.max_pos, Start(c.iv[current]))),
    current, sel.reg, sel.max_pos, bp)

\* allocate_blocked_reg; the Err is left in c.status
allocate_blocked_reg(c, current) ==
  IF get_hint(c.iv, current) = -2 \/ ~ActiveOk(c) \/ ~IntersectingOk(c, current)
  THEN Panic(c)
  ELSE BlockedSelected(c, current,
         select_reg(c.iv[current], use_pos(c, current), get_hint(c.iv, current)),
         block_pos(c, current))

RECURSIVE to_handled_all(_, _, _)
to_handled_all(st, handled, k) ==
  IF k > Len(handled) THEN st
  ELSE to_handled_all(to_handled(st, handled[k]), handled, k + 1)

\* a pop that leaves current at the head of the unhandled list
WalkPop_keep(c) ==
  Log(c, Event("pop", c.st.unhandled[1], Start(c.iv[c.st.unhandled[1]]), 0, 0))

\* lines 211-245: pop current, move active and inactive intervals on
WalkPop(c) ==
  LET current == c.st.unhandled[1]
      position == Start(c.iv[current])
      cov(id) == Covers(c.iv[id], position)
      \* active => inactive or handled
      left == SelectSeq(c.st.active, LAMBDA id : ~cov(id))
      inactive1 == c.st.inactive
                   \o SelectSeq(left, LAMBDA id : position <= End(c.iv[id]))
      \* inactive => active or handled
      back == SelectSeq(inactive1, cov)
      handled == [k \in DOMAIN left |-> c.iv[left[k]].value]
                 \o [k \in DOMAIN back |-> c.iv[back[k]].value]
      active2 == SelectSeq(c.st.active, cov) \o back
      inactive2 == SelectSeq(inactive1,
                     LAMBDA id : ~cov(id) /\ position < End(c.iv[id]))
  IN [c EXCEPT !.st = to_handled_all(
                        [c.st EXCEPT !.unhandled = Tail(@),
                                     !.active = active2,
                                     !.inactive = inactive2],
                        handled, 1),
               !.log = @ \o <<Event("pop", current, position, 0, 0),
                               Event("migrated", current, position, 0,
                                     [active |-> active2, inactive |-> inactive2,
                                      left |-> left, back |-> back])>>]

\* lines 250-255: the blocked policy when the free policy failed
FreeOrBlocked(f, current) ==
  IF f.c.status # "ok" \/ f.success THEN f.c
  ELSE allocate_blocked_reg(f.c, current)

\* a walk that allocates for every popped interval, with a value or not
WalkAllocate_any(c1, current) ==
  FreeOrBlocked(allocate_free_reg(c1, current), current)

\* lines 247-256: only an interval without a value is allocated
WalkAllocate(c1, current) ==
  IF is_virtual(c1.iv[current].value)
  THEN FreeOrBlocked(allocate_free_reg(c1, current), current)
  ELSE c1

\* a walk that makes every popped interval active
WalkPush_all(c2, current) ==
  IF c2.status # "ok" THEN c2
  ELSE [c2 EXCEPT !.st.active = Append(@, current)]

\* lines 258-261: current becomes active if it holds a register
WalkPush(c2, current) ==
  IF c2.status # "ok" THEN c2
  ELSE IF c2.iv[current].value.tag = "Register"
       THEN [c2 EXCEPT !.st.active = Append(@, current)]
       ELSE c2

\* one turn of the loop of walk_intervals (lines 209-262)
walk_step(c) ==
  WalkPush(WalkAllocate(WalkPop(c), c.st.unhandled[1]), c.st.unhandled[1])

\* walk_intervals lines 183-207: the state a walk starts from
walk_start(c, g) ==
  LET ids == SelectSeq(Ascending(DOMAIN c.iv),
               LAMBDA id : c.iv[id].value.group = g /\ Len(c.iv[id].ranges) > 0)
  IN sort_unhandled(
       [c EXCEPT !.st = [NewState(g) EXCEPT
          !.active = SelectSeq(ids, LAMBDA id : c.iv[id].fixed),
          !.unhandled = SelectSeq(ids, LAMBDA id : ~c.iv[id].fixed)]])

----------------------------------------------------------------------------
(* resolve_data_flow and verify *)

\* Graph::child_at: the first of parent, children[1], ... whose
\* [start, end) holds pos; 0 is None
child_at(iv, parent, pos) ==
  LET all == <<parent>> \o iv[parent].children
      hit == {k \in DOMAIN all :
                Start(iv[all[k]]) <= pos /\ pos < End(iv[all[k]])}
  IN IF hit = {} THEN 0 ELSE all[Min(hit)]

\* Option<Value>::None of get_value
NoValue == [tag |-> "None", group |-> 0, n |-> 0]

\* a lookup by liveness alone: the piece child_at finds
child_with_use_at_live(iv, parent, pos) == child_at(iv, parent, pos)

\* Graph::child_with_use_at: the first of parent, children[1], ... whose
\* [start, end] holds pos and that has a use at pos; 0 is None
child_with_use_at(iv, parent, pos) ==
  LET all == <<parent>> \o iv[parent].children
      hit == {k \in DOMAIN all :
                /\ Start(iv[all[k]]) <= pos /\ pos <= End(iv[all[k]])
                /\ \E u \in DOMAIN iv[all[k]].uses : iv[all[k]].uses[u].pos = pos}
  IN IF hit = {} THEN 0 ELSE all[Min(hit)]

\* Graph::get_value
get_value(iv, i, pos) ==
  LET child == child_with_use_at(iv, i, pos)
  IN IF child # 0 THEN iv[child].value ELSE NoValue

\* a resolver that puts every move at the end of the predecessor
GapPos_block_end(two, block_end, succ_start) == block_end

\* where the move of an edge goes (lines 637-641): the successor's start
\* when the predecessor has two successors, else the predecessor's last gap
GapPos(two, block_end, succ_start) == IF two THEN succ_start ELSE block_end

RECURSIVE ResolveLiveIn(_, _, _, _, _, _)
\* the loop over live_in of a successor (lines 626-645), from index k
ResolveLiveIn(c, live_in, k, block_end, succ_start, two) ==
  IF c.status # "ok" \/ k > Len(live_in) THEN c
  ELSE LET interval_id == live_in[k]
           parent == IF c.iv[interval_id].parent # 0 THEN c.iv[interval_id].parent
                     ELSE interval_id
           from == IF Len(c.iv[parent].ranges) = 0 THEN 0
                   ELSE child_at(c.iv, parent, block_end)
           to == IF Len(c.iv[parent].ranges) = 0 THEN 0
                 ELSE child_at(c.iv, parent, succ_start)
           gap_pos == GapPos(two, block_end, succ_start)
       IN ResolveLiveIn(
            IF from = 0 \/ to = 0 THEN Panic(c)
            ELSE IF from # to
                 THEN Log([c EXCEPT !.gaps[gap_pos] = Append(@, Move(from, to))],
                          Event("move", interval_id, from, to, gap_pos))
                 ELSE c,
            live_in, k + 1, block_end, succ_start, two)

RECURSIVE ResolveSuccessors(_, _, _)
ResolveSuccessors(c, b, k) ==
  IF c.status # "ok" \/ k > Len(blocks[b].successors) THEN c
  ELSE LET succ == blocks[blocks[b].successors[k]]
       IN ResolveSuccessors(
            ResolveLiveIn(c, Ascending(succ.live_in), 1, blocks[b].end - 1,
                          succ.start, Len(blocks[b].successors) = 2),
            b, k + 1)

RECURSIVE ResolveBlocks(_, _)
ResolveBlocks(c, b) ==
  IF c.status # "ok" \/ b > Len(blocks) THEN c
  ELSE ResolveBlocks(ResolveSuccessors(c, b, 1), b + 1)

\* AllocatorHelper::resolve_data_flow
resolve_data_flow(c) == ResolveBlocks(c, 1)

\* a cycle-breaking action of a gap (GapAction of kind Swap)
Swap(from, to) == [kind |-> "Swap", from |-> from, to |-> to]

\* after Swap(a, b) the value that was in b is in a and the other way
\* round: the remaining moves read from the other side, and a move that
\* has become a move of a location onto itself is dropped
Rotate(iv, ms, a, b) ==
  LET turned == [k \in DOMAIN ms |->
                   IF iv[ms[k].from].value = iv[b].value
                   THEN [ms[k] EXCEPT !.from = a]
                   ELSE IF iv[ms[k].from].value = iv[a].value
                   THEN [ms[k] EXCEPT !.from = b]
                   ELSE ms[k]]
  IN SelectSeq(turned, LAMBDA m : iv[m.from].value # iv[m.to].value)

\* a resolver that leaves the moves of a gap in the order they were added
resolve_gap_in_order(iv, ms, out) == out \o ms

RECURSIVE resolve_gap(_, _, _)
\* the serialisation of one gap: a move whose target (a register or a
\* stack slot) no other remaining move reads is emitted first; when only
\* cycles remain one edge of a cycle is emitted as a Swap
resolve_gap(iv, ms, out) ==
  IF ms = <<>> THEN out
  ELSE LET ready == {k \in DOMAIN ms :
                       \A j \in DOMAIN ms :
                         j # k => iv[ms[j].from].value # iv[ms[k].to].value}
       IN IF ready # {}
          THEN resolve_gap(iv, SubSeq(ms, 1, Min(ready) - 1)
                               \o SubSeq(ms, Min(ready) + 1, Len(ms)),
                           Append(out, ms[Min(ready)]))
          ELSE resolve_gap(iv, Rotate(iv, Tail(ms), ms[1].from, ms[1].to),
                           Append(out, Swap(ms[1].from, ms[1].to)))

\* resolve_gaps: the resolved sequence replaces the action list of each gap
resolve_gaps(iv, gs) == [pos \in DOMAIN gs |-> resolve_gap(iv, gs[pos], <<>>)]

\* the assertions of verify() in a test build
UseHonoured(value, u) ==
  /\ u.kind.group = value.group
  /\ u.kind.tag = "UseRegister" => value.tag = "Register"
  /\ u.kind.tag = "UseFixed" => (value.tag = "Register" /\ value.n = u.kind.reg)

verify(iv) ==
  \A id \in DOMAIN iv :
    Len(iv[id].ranges) > 0 =>
      /\ ~is_virtual(iv[id].value)
      /\ \A k \in DOMAIN iv[id].uses : UseHonoured(iv[id].value, iv[id].uses[k])

----------------------------------------------------------------------------
(* The programs allocate() is run on *)

\* real instructions of a program without phis
MaxInstrs == 3

\* operands of one instruction
MaxInputs == 1

\* clobbering instructions (calls) in one program
MaxCalls == 1

\* instructions with a temporary in one program
MaxTemps == 1

\* fixed-register demands (results and operands) in one program
MaxFixed == 2

\* the smaller register file some programs are allocated with
FewRegs == NumRegs - 1

\* a group without registers (with NumRegs = 2)
NoRegs == FewRegs - 1

UseKinds(nr, fx) ==
  {UseAny(0), UseRegister(0)}
  \cup (IF fx > 0 THEN {UseFixed(0, r) : r \in 0 .. (nr - 1)} ELSE {})

\* operand lists over the values `avail`: distinct values in increasing order
InSeqs(avail) ==
  {<<>>} \cup (IF MaxInputs >= 1 THEN {<<a>> : a \in avail} ELSE {})
         \cup (IF MaxInputs >= 2
               THEN {ab \in avail \X avail : ab[1] < ab[2]}
               ELSE {})

FixedCount(kind) ==
  (IF is_fixed(kind.result_kind) THEN 1 ELSE 0)
  + Cardinality({k \in DOMAIN kind.use_kind : is_fixed(kind.use_kind[k])})

Op(kind, ins) == [kind |-> kind, phi |-> 0, ins |-> ins]

\* the instructions that can read the values `avail`, within what is left of
\* the budgets; an instruction with a temporary has no operand and no result
Ops(avail, nr, calls, tmps, fx) ==
  UNION {
    {op \in {Op(UserKind(clob, <<>>, uk, rk), ins) :
               clob \in (IF calls > 0 THEN {{}, {0}} ELSE {{}}),
               uk \in [DOMAIN ins -> UseKinds(nr, fx)],
               rk \in {NoKind} \cup UseKinds(nr, fx)} :
       FixedCount(op.kind) <= fx}
    : ins \in InSeqs(avail)}
  \cup (IF tmps > 0
        THEN {Op(UserKind(clob, <<0>>, <<>>, NoKind), <<>>) :
                clob \in (IF calls > 0 THEN {{}, {0}} ELSE {{}})}
        ELSE {})

RECURSIVE Lines(_, _, _, _, _, _, _)
\* the sequences of n instructions that can follow cnt results of which
\* `avail` may be read
Lines(n, avail, cnt, nr, calls, tmps, fx) ==
  IF n = 0 THEN {<<>>}
  ELSE UNION {
         {<<op>> \o rest :
            rest \in Lines(n - 1,
                           IF HasNewOutput(op) THEN avail \cup {cnt + 1} ELSE avail,
                           cnt + (IF HasNewOutput(op) THEN 1 ELSE 0),
                           nr,
                           calls - (IF op.kind.clobbers # {} THEN 1 ELSE 0),
                           tmps - Len(op.kind.temporary),
                           fx - FixedCount(op.kind))}
         : op \in Ops(avail, nr, calls, tmps, fx)}

Count(l, P(_)) == Cardinality({k \in DOMAIN l : P(l[k])})

Results(l) == Count(l, HasNewOutput)
CallsIn(l) == Count(l, LAMBDA op : op.kind.clobbers # {})
FixedIn(l) == Count(l, LAMBDA op : FixedCount(op.kind) = 1)
              + 2 * Count(l, LAMBDA op : FixedCount(op.kind) >= 2)

TempsIn(l) == Count(l, LAMBDA op : Len(op.kind.temporary) > 0)

\* the sequences of n instructions that can follow the sequence l and read
\* the results of `seen`, within the budgets l leaves
Rest(n, seen, l, nr, calls, tmps, fx) ==
  Lines(n, 1 .. Results(seen), Results(l), nr, calls - CallsIn(l),
        tmps - TempsIn(l), fx - FixedIn(l))

Block(l, succ, depth) == [instrs |-> l, successors |-> succ, loop_depth |-> depth]

ToPhi(v) == [kind |-> ToPhiKind(0), phi |-> 1, ins |-> <<v>>]

Plain(rk) == Op(UserKind({}, <<>>, <<>>, rk), <<>>)

\* one block, no phis
StraightLine(nr, l) ==
  [regs |-> nr, phis |-> <<>>, blocks |-> <<Block(l, <<>>, 0)>>]

\* block 1 falls through to block 2
TwoBlocks(nr, l1, l2) ==
  [regs |-> nr, phis |-> <<>>,
   blocks |-> <<Block(l1, <<2>>, 0), Block(l2, <<>>, 0)>>]

\* block 1 branches to blocks 2 and 3, which both end the program
Branch(nr, l1, l2, l3) ==
  [regs |-> nr, phis |-> <<>>,
   blocks |-> <<Block(l1, <<2, 3>>, 0), Block(l2, <<>>, 0), Block(l3, <<>>, 0)>>]

\* the loop of tests.rs: block 1 binds the first value of the phi (value 1),
\* block 2 is the loop header and branches to the body (block 3, which binds
\* the next value of the phi and goes back) and to the exit (block 4)
Loop(nr, x, y) ==
  [regs |-> nr, phis |-> <<0>>,
   blocks |-> <<Block(<<Plain(UseRegister(0)), ToPhi(2)>>, <<2>>, 0),
                Block(<<x>>, <<3, 4>>, 1),
                Block(<<y, ToPhi(2 + Results(<<x, y>>))>>, <<2>>, 1),
                Block(<<Plain(NoKind)>>, <<>>, 0)>>]

----------------------------------------------------------------------------
(* The builder: Graph::empty_block, Graph::new_instr, Graph::phi and the   *)
(* calls of BlockBuilder.  A failed assertion leaves the graph with what   *)
(* was written before it and status "panic" (the task fails).              *)

MaxBlocks == 2

MaxBuilt == 3

\* Graph::new; hints[i] is the hint of interval i (0: None)
NewGraph == [blocks |-> <<>>, instructions |-> <<>>, hints |-> <<>>,
             status |-> "ok"]

\* Instruction::new (out: the kind has a result) and new_empty
Instruction_new(g, tag, out, args) ==
  [g EXCEPT !.hints = IF out THEN Append(@, 0) ELSE @,
            !.instructions =
              Append(@, [tag |-> tag, block |-> 0, inputs |-> args,
                         output |-> IF out THEN Len(g.hints) + 1 ELSE 0,
                         added |-> FALSE])]

\* a builder that appends to a block whether it is ended or not
add_existing_unchecked(g, b, i) ==
  IF g.status # "ok" THEN g
  ELSE IF g.instructions[i].added THEN Panic(g)
  ELSE [g EXCEPT !.instructions[i].added = TRUE, !.instructions[i].block = b,
                 !.blocks[b].instructions = Append(@, i)]

\* BlockBuilder::add_existing
add_existing(g, b, i) ==
  IF g.status # "ok" THEN g
  ELSE IF g.instructions[i].added THEN Panic(g)
  ELSE IF g.blocks[b].ended
  THEN Panic([g EXCEPT !.instructions[i].added = TRUE,
                       !.instructions[i].block = b])
  ELSE [g EXCEPT !.instructions[i].added = TRUE, !.instructions[i].block = b,
                 !.blocks[b].instructions = Append(@, i)]

\* BlockBuilder::end
end_block(g, b) ==
  IF g.status # "ok" THEN g
  ELSE IF g.blocks[b].ended \/ Len(g.blocks[b].instructions) = 0 THEN Panic(g)
  ELSE [g EXCEPT !.blocks[b].ended = TRUE]

\* Block::add_successor
add_successor(g, b, succ) ==
  IF g.status # "ok" THEN g
  ELSE IF ~(Len(g.blocks[b].successors) <= 2) THEN Panic(g)
  ELSE [g EXCEPT !.blocks[b].successors = Append(@, succ)]

\* Block::add_predecessor
add_predecessor(g, b, pred) ==
  IF g.status # "ok" THEN g
  ELSE IF ~(Len(g.blocks[b].predecessors) <= 2) THEN Panic(g)
  ELSE [g EXCEPT !.blocks[b].predecessors = Append(@, pred)]

\* a to_phi in which every call sets the hint
to_phi_last(g, b, input, phi) ==
  LET out == g.instructions[phi].output
      g1 == [g EXCEPT !.hints[out] = g.instructions[input].output]
      g2 == Instruction_new(g1, "ToPhi", FALSE, <<input>>)
      res == Len(g2.instructions)
      g3 == add_existing([g2 EXCEPT !.instructions[res].output = out], b, res)
  IN IF g3.status # "ok" THEN g3
     ELSE IF Len(g3.instructions[phi].inputs) + 1 > 2
     THEN Panic([g3 EXCEPT !.instructions[phi].inputs = Append(@, res)])
     ELSE [g3 EXCEPT !.instructions[phi].inputs = Append(@, res)]

\* BlockBuilder::to_phi after its first lines: the hint of the phi's output
\* is set once, the ToPhi instruction `res` is made and added to the block,
\* the phi gets it as an input, and a phi has at most two inputs
to_phi(g, b, input, phi) ==
  LET out == g.instructions[phi].output
      g1 == IF g.hints[out] = 0
            THEN [g EXCEPT !.hints[out] = g.instructions[input].output]
            ELSE g
      g2 == Instruction_new(g1, "ToPhi", FALSE, <<input>>)
      res == Len(g2.instructions)
      g3 == add_existing([g2 EXCEPT !.instructions[res].output = out], b, res)
  IN IF g3.status # "ok" THEN g3
     ELSE IF Len(g3.instructions[phi].inputs) + 1 > 2
     THEN Panic([g3 EXCEPT !.instructions[phi].inputs = Append(@, res)])
     ELSE [g3 EXCEPT !.instructions[phi].inputs = Append(@, res)]

----------------------------------------------------------------------------
(* allocate() as a state machine *)

Ctx == [iv |-> intervals, gaps |-> gaps, st |-> state, status |-> "ok",
        log |-> <<>>]

RangesOf(iv) == [id \in DOMAIN iv |-> iv[id].ranges]

\* the graph after construction; allocate() has not started
Load(p) ==
  /\ program = p
  /\ registers = p.regs
  /\ instructions = <<>>
  /\ blocks = <<>>
  /\ intervals = <<>>
  /\ gaps = <<>>
  /\ physical = <<>>
  /\ state = NewState(0)
  /\ pc = "prepare"
  /\ group_idx = 0
  /\ results = <<>>
  /\ result = "none"
  /\ hist = [log |-> <<>>, orig |-> <<>>, pre |-> <<>>]
  /\ graph = NewGraph

InitStraightLine(nr, tmps, fx) ==
  \E l1 \in Lines(1, {}, 0, nr, MaxCalls, tmps, fx) :
    \E l2 \in Rest(MaxInstrs - 1, l1, l1, nr, MaxCalls, tmps, fx) :
      Load(StraightLine(nr, l1 \o l2))

InitTwoBlocks(nr, fx) ==
  \E n1 \in 1 .. (MaxInstrs - 1) :
    \E l1 \in Lines(n1, {}, 0, nr, MaxCalls, 0, fx) :
      \E l2 \in Rest(MaxInstrs - n1, l1, l1, nr, MaxCalls, 0, fx) :
        Load(TwoBlocks(nr, l1, l2))

\* block 3 reads what block 1 defined
InitBranch(nr, fx) ==
  \E l1 \in Lines(1, {}, 0, nr, MaxCalls, 0, fx) :
    \E l2 \in Rest(1, l1, l1, nr, MaxCalls, 0, fx) :
      \E l3 \in Rest(1, l1, l1 \o l2, nr, MaxCalls, 0, fx) :
        Load(Branch(nr, l1, l2, l3))

\* the header and the body read the phi (value 1) and the value bound to it
\* before the loop (value 2); the body defines the value it binds
InitLoop(nr) ==
  \E x \in Ops({1, 2}, nr, MaxCalls, 0, 0) :
    \E y \in {op \in Ops(1 .. (2 + Results(<<x>>)), nr,
                         MaxCalls - CallsIn(<<x>>), 0, 0) : HasNewOutput(op)} :
      Load(Loop(nr, x, y))

\* register pressure: value 1 is defined in a register and used again after
\* value 2 is defined
PressureHead ==
  <<Plain(UseRegister(0)), Plain(UseAny(0)),
    Op(UserKind({}, <<>>, <<UseRegister(0)>>, NoKind), <<1>>)>>

\* the instructions that follow the head read the two values
InitPressure(nr) ==
  \E l \in Rest(MaxInstrs - 1, PressureHead, PressureHead, nr, MaxCalls, 0, 0) :
    Load(StraightLine(nr, PressureHead \o l))

Init ==
  \/ InitStraightLine(NumRegs, MaxTemps, MaxFixed)
  \/ InitStraightLine(FewRegs, MaxTemps, 0)
  \/ InitStraightLine(NoRegs, MaxTemps, 0)
  \/ InitPressure(FewRegs)
  \/ InitTwoBlocks(FewRegs, MaxFixed - 1)
  \/ InitBranch(NumRegs, MaxFixed - 1)
  \/ InitLoop(FewRegs)
  \/ InitLoop(NumRegs)

\* allocate() goes on with the gaps before the data-flow moves are there
AfterWalks_gaps == "resolve_gaps"

\* allocate() lines 157-158: what follows the walk of the last group
AfterWalks == "resolve_data_flow"

\* the way out of allocate() on an Err or a failed assertion
Leave(c) ==
  /\ pc' = "done"
  /\ result' = c.status

\* allocate() lines 124-138: prepare() flattens the graph and computes
\* liveness, then every register of every group gets its fixed interval
Prepare ==
  /\ pc = "prepare"
  /\ LET f == Flatten(program)
     IN /\ instructions' = f.instructions
        /\ blocks' = liveness_analysis(f.instructions, f.blocks)
        /\ intervals' = [id \in DOMAIN f.intervals |->
                           [f.intervals[id] EXCEPT !.hint = PhiHint(f, id)]]
                        \o PhysicalIntervals
        /\ physical' = PhysicalIds(Len(f.intervals))
        /\ gaps' = [pos \in DOMAIN f.instructions |-> <<>>]
  /\ pc' = "build_ranges"
  /\ UNCHANGED <<graph, program, registers, state, group_idx, results, result, hist>>

\* allocate() lines 139-174: build_ranges returned c1 (pre: before split_fixed)
BuildRangesTo(pre, c1) ==
  /\ intervals' = c1.iv
  /\ gaps' = c1.gaps
  /\ hist' = [hist EXCEPT !.log = c1.log, !.orig = RangesOf(pre.iv)]
  /\ IF c1.status = "ok"
     THEN pc' = "walk_start" /\ group_idx' = 1 /\ result' = result
     ELSE Leave(c1) /\ group_idx' = group_idx

BuildRangesFrom(pre) == BuildRangesTo(pre, split_fixed(pre))

\* allocate() lines 139-143: build_ranges, which works on a clone of
\* `physical` and leaves the map of every group empty (line 673)
BuildRanges ==
  /\ pc = "build_ranges"
  /\ physical' = IF DOMAIN instructions = {} THEN physical
                 ELSE [g \in Groups |-> <<>>]
  /\ BuildRangesFrom(BuildBlocks(Ctx, physical, Len(blocks)))
  /\ UNCHANGED <<graph, program, instructions, blocks, registers, state, results>>

\* walk_intervals lines 183-207
WalkStart ==
  /\ pc = "walk_start"
  /\ state' = walk_start(Ctx, group_idx - 1).st
  /\ pc' = "walk"
  /\ hist' = [hist EXCEPT !.log = <<>>]
  /\ UNCHANGED <<graph, program, instructions, blocks, registers, intervals, gaps,
                 physical, group_idx, results, result>>

WalkStepTo(c1) ==
  /\ intervals' = c1.iv
  /\ gaps' = c1.gaps
  /\ state' = c1.st
  /\ hist' = [hist EXCEPT !.log = c1.log]
  /\ IF c1.status = "ok" THEN UNCHANGED <<pc, result>> ELSE Leave(c1)

\* one turn of the loop of walk_intervals
WalkStep ==
  /\ pc = "walk"
  /\ Len(state.unhandled) > 0
  /\ WalkStepTo(walk_step(Ctx))
  /\ UNCHANGED <<graph, program, instructions, blocks, registers, physical, group_idx,
                 results>>

\* walk_intervals line 264 and the loop over the groups in allocate()
WalkDone ==
  /\ pc = "walk"
  /\ Len(state.unhandled) = 0
  /\ results' = Append(results, state.spill_count)
  /\ IF group_idx < NumGroups
     THEN pc' = "walk_start" /\ group_idx' = group_idx + 1
     ELSE pc' = AfterWalks /\ group_idx' = group_idx
  /\ hist' = [hist EXCEPT !.log = <<>>]
  /\ UNCHANGED <<graph, program, instructions, blocks, registers, intervals, gaps, physical, state, result>>

ResolveDataFlowTo(c1) ==
  /\ gaps' = c1.gaps
  /\ hist' = [hist EXCEPT !.log = c1.log]
  /\ IF c1.status = "ok" THEN pc' = "resolve_gaps" /\ result' = result
     ELSE Leave(c1)

\* allocate() line 158
ResolveDataFlow ==
  /\ pc = "resolve_data_flow"
  /\ ResolveDataFlowTo(resolve_data_flow(Ctx))
  /\ UNCHANGED <<graph, program, instructions, blocks, registers, intervals, physical,
                 state, group_idx, results>>

\* allocate() line 161: every gap is serialised; hist.pre keeps the moves
\* the gaps held when resolve_gaps started
ResolveGaps ==
  /\ pc = "resolve_gaps"
  /\ gaps' = resolve_gaps(intervals, gaps)
  /\ hist' = [hist EXCEPT !.log = <<>>, !.pre = gaps]
  /\ pc' = "verify"
  /\ UNCHANGED <<graph, program, instructions, blocks, registers, intervals, physical,
                 state, group_idx, results, result>>

\* allocate() lines 163-171: verify() asserts in a test build only
Verify ==
  /\ pc = "verify"
  /\ \E test \in BOOLEAN :
       result' = IF test /\ ~verify(intervals) THEN "panic" ELSE "ok"
  /\ pc' = "done"
  /\ UNCHANGED <<graph, program, instructions, blocks, registers, intervals, gaps, physical, state,
                 group_idx, results, hist>>

Next ==
  \/ Prepare
  \/ BuildRanges
  \/ WalkStart
  \/ WalkStep
  \/ WalkDone
  \/ ResolveDataFlow
  \/ ResolveGaps
  \/ Verify

Spec == Init /\ [][Next]_vars

----------------------------------------------------------------------------
(* A host building a graph, one builder call at a time *)

\* the builder call op was made on block b with arguments x and y;
\* allocate() has not been called yet
Call(op, b, x, y) ==
  /\ hist' = [hist EXCEPT !.log = <<Event(op, b, x, y, 0)>>]
  /\ UNCHANGED <<program, instructions, blocks, intervals, gaps, registers,
                 physical, state, pc, group_idx, results, result>>

Building == graph.status = "ok"

\* Graph::empty_block
BuildEmptyBlock ==
  /\ Building /\ Len(graph.blocks) < MaxBlocks
  /\ graph' = [graph EXCEPT !.blocks =
                 Append(@, [instructions |-> <<>>, successors |-> <<>>,
                            predecessors |-> <<>>, ended |-> FALSE])]
  /\ Call("empty_block", Len(graph.blocks) + 1, 0, 0)

\* Graph::new_instr: an instruction that is in no block yet
BuildNewInstr ==
  /\ Building /\ Len(graph.instructions) < MaxBuilt
  /\ \E out \in BOOLEAN :
       graph' = Instruction_new(graph, "User", out, <<>>)
  /\ Call("new_instr", 0, 0, 0)

\* Graph::phi: a phi counts as added (it never goes into a block)
BuildPhi ==
  /\ Building /\ Len(graph.instructions) < MaxBuilt
  /\ graph' = [Instruction_new(graph, "Phi", TRUE, <<>>) EXCEPT
                 !.instructions[Len(graph.instructions) + 1].added = TRUE]
  /\ Call("phi", 0, 0, 0)

\* BlockBuilder::add
BuildAdd ==
  /\ Building /\ Len(graph.instructions) < MaxBuilt
  /\ \E b \in DOMAIN graph.blocks : \E out \in BOOLEAN :
       /\ graph' = add_existing(Instruction_new(graph, "User", out, <<>>), b,
                                Len(graph.instructions) + 1)
       /\ Call("add", b, 0, 0)

\* BlockBuilder::add_existing
BuildAddExisting ==
  /\ Building
  /\ \E b \in DOMAIN graph.blocks : \E i \in DOMAIN graph.instructions :
       /\ graph' = add_existing(graph, b, i)
       /\ Call("add_existing", b, i, 0)

\* BlockBuilder::to_phi: fails at once on a phi that is no Phi and on an
\* input without output
ToPhiCall ==
  \E b \in DOMAIN graph.blocks : \E input \in DOMAIN graph.instructions :
    \E phi \in DOMAIN graph.instructions :
      /\ graph' = IF \/ graph.instructions[phi].tag # "Phi"
                     \/ graph.instructions[input].output = 0
                  THEN Panic(graph)
                  ELSE to_phi(graph, b, input, phi)
      /\ Call("to_phi", b, input, phi)

BuildToPhi ==
  /\ Building /\ Len(graph.instructions) < MaxBuilt
  /\ ToPhiCall

\* BlockBuilder::end
BuildEnd ==
  /\ Building
  /\ \E b \in DOMAIN graph.blocks :
       /\ graph' = end_block(graph, b)
       /\ Call("end", b, 0, 0)

\* BlockBuilder::goto
BuildGoto ==
  /\ Building
  /\ \E b \in DOMAIN graph.blocks : \E target \in DOMAIN graph.blocks :
       /\ graph' = end_block(add_predecessor(add_successor(graph, b, target),
                                             target, b), b)
       /\ Call("goto", b, target, 0)

\* BlockBuilder::branch
BuildBranch ==
  /\ Building
  /\ \E b \in DOMAIN graph.blocks : \E left \in DOMAIN graph.blocks :
       \E right \in DOMAIN graph.blocks :
         /\ graph' = end_block(
                       add_predecessor(
                         add_predecessor(
                           add_successor(add_successor(graph, b, left), b, right),
                           left, b),
                         right, b),
                       b)
         /\ Call("branch", b, left, right)

BuilderInit == Load(StraightLine(NoRegs, <<>>))

BuilderNext ==
  \/ BuildEmptyBlock
  \/ BuildNewInstr
  \/ BuildPhi
  \/ BuildAdd
  \/ BuildAddExisting
  \/ BuildToPhi
  \/ BuildEnd
  \/ BuildGoto
  \/ BuildBranch

BuilderSpec == BuilderInit /\ [][BuilderNext]_vars

----------------------------------------------------------------------------
(* A host binding inputs to phis: the graph holds two open blocks, two     *)
(* instructions with an output in block 1 and two phis; the host calls     *)
(* to_phi and end                                                          *)

\* to_phi calls in one run
MaxToPhi == 3

WithPhis ==
  LET open == [instructions |-> <<>>, successors |-> <<>>,
               predecessors |-> <<>>, ended |-> FALSE]
      g0 == [NewGraph EXCEPT !.blocks = <<open, open>>]
      g1 == add_existing(Instruction_new(g0, "User", TRUE, <<>>), 1, 1)
      g2 == add_existing(Instruction_new(g1, "User", TRUE, <<>>), 1, 2)
      g3 == [Instruction_new(g2, "Phi", TRUE, <<>>) EXCEPT
               !.instructions[3].added = TRUE]
  IN [Instruction_new(g3, "Phi", TRUE, <<>>) EXCEPT
        !.instructions[4].added = TRUE]

PhiInit ==
  /\ program = StraightLine(NoRegs, <<>>)
  /\ registers = NoRegs
  /\ instructions = <<>>
  /\ blocks = <<>>
  /\ intervals = <<>>
  /\ gaps = <<>>
  /\ physical = <<>>
  /\ state = NewState(0)
  /\ pc = "prepare"
  /\ group_idx = 0
  /\ results = <<>>
  /\ result = "none"
  /\ hist = [log |-> <<>>, orig |-> <<>>, pre |-> <<>>]
  /\ graph = WithPhis

\* BlockBuilder::to_phi, up to MaxToPhi times
PhiToPhi ==
  /\ Building
  /\ Len(graph.instructions) < Len(WithPhis.instructions) + MaxToPhi
  /\ ToPhiCall

PhiNext ==
  \/ PhiToPhi
  \/ BuildEnd

PhiSpec == PhiInit /\ [][PhiNext]_vars

----------------------------------------------------------------------------
(* allocate() on programs in which one instruction lists a value twice:    *)
(* value 1 is defined, an instruction reads it as both of its operands,    *)
(* and an instruction that reads it once more may follow                   *)

Doubled ==
  {<<Plain(rk1), Op(UserKind(clob, <<>>, <<uk1, uk2>>, rk2), <<1, 1>>)>> \o tail :
     rk1 \in {UseAny(0), UseRegister(0)},
     clob \in {{}, {0}},
     uk1 \in {UseAny(0), UseRegister(0)},
     uk2 \in {UseAny(0), UseRegister(0)},
     rk2 \in {NoKind, UseAny(0)},
     tail \in {<<>>, <<Op(UserKind({}, <<>>, <<UseAny(0)>>, NoKind), <<1>>)>>}}

InitDoubled ==
  \E nr \in {FewRegs, NumRegs} : \E l \in Doubled : Load(StraightLine(nr, l))

DoubledSpec == InitDoubled /\ [][Next]_vars

----------------------------------------------------------------------------
(* resolve_gaps on the gaps of an allocated graph: four intervals in two   *)
(* registers and a stack slot, two of them pieces in the same register,    *)
(* and in the one gap up to MaxMoves moves that write different locations  *)

MaxMoves == 3

Allocated ==
  <<[NewInterval(0) EXCEPT !.value = RegisterVal(0, 0)],
    [NewInterval(0) EXCEPT !.value = RegisterVal(0, 1)],
    [NewInterval(0) EXCEPT !.value = StackVal(0, 0)],
    [NewInterval(0) EXCEPT !.value = RegisterVal(0, 0)]>>

\* the lists of moves a gap can hold: no two moves write one location
GapMoves ==
  LET pairs == {m \in [kind : {"Move"}, from : DOMAIN Allocated,
                                        to : DOMAIN Allocated] : m.from # m.to}
      lists == UNION {[1..n -> pairs] : n \in 0..MaxMoves}
  IN {ms \in lists :
        \A j \in DOMAIN ms : \A k \in DOMAIN ms :
          j # k => Allocated[ms[j].to].value # Allocated[ms[k].to].value}

GapInit ==
  /\ program = StraightLine(NumRegs, <<>>)
  /\ registers = NumRegs
  /\ instructions = <<>>
  /\ blocks = <<>>
  /\ intervals = Allocated
  /\ gaps \in {<<ms>> : ms \in GapMoves}
  /\ physical = <<>>
  /\ state = NewState(0)
  /\ pc = "resolve_gaps"
  /\ group_idx = NumGroups
  /\ results = <<>>
  /\ result = "none"
  /\ hist = [log |-> <<>>, orig |-> <<>>, pre |-> <<>>]
  /\ graph = NewGraph

GapNext == ResolveGaps

GapSpec == GapInit /\ [][GapNext]_vars

----------------------------------------------------------------------------
(* Properties of the allocation *)

\* allocate() returned Ok
ReturnedOk == pc = "done" /\ result = "ok"

\* the intervals that have ranges
WithRanges == {id \in DOMAIN intervals : Len(intervals[id].ranges) > 0}

UsesOf(id) == {intervals[id].uses[k] : k \in DOMAIN intervals[id].uses}

\* C1: after allocate() returns Ok, no two intervals (roots, split children
\* or fixed intervals) that hold the same register of a group have ranges
\* covering the same position
NoDoubleBooking ==
  ReturnedOk =>
    \A a \in WithRanges : \A b \in WithRanges :
      (a # b /\ intervals[a].value.tag = "Register"
             /\ intervals[b].value = intervals[a].value)
      => \A p \in DOMAIN instructions :
           ~(Covers(intervals[a], p) /\ Covers(intervals[b], p))

\* allocate() returned Ok after an interval was split and spilled to make
\* room, and a register went to two intervals one after the other
RegisterSharedAfterSpill ==
  /\ ReturnedOk
  /\ \E g \in DOMAIN results : results[g] > 0
  /\ \E a \in WithRanges : \E b \in WithRanges :
       /\ a # b /\ ~intervals[a].fixed /\ ~intervals[b].fixed
       /\ intervals[a].value.tag = "Register"
       /\ intervals[b].value = intervals[a].value
       /\ intervals[b].parent # 0

\* C2: after allocate() returns Ok, every interval with ranges that has a
\* use of kind Fixed(g, r) holds exactly Register(g, r)
FixedUsesHonoured ==
  ReturnedOk =>
    \A id \in WithRanges : \A u \in UsesOf(id) :
      is_fixed(u.kind) => intervals[id].value = RegisterVal(u.kind.group, u.kind.reg)

\* C3: after allocate() returns Ok, every interval that carries a use of
\* kind Register(g) holds a register, and an interval that holds a stack
\* slot has only Any uses
RegisterUsesHonoured ==
  ReturnedOk =>
    \A id \in WithRanges :
      /\ (\E u \in UsesOf(id) : u.kind.tag = "UseRegister")
           => intervals[id].value.tag = "Register"
      /\ intervals[id].value.tag = "Stack"
           => \A u \in UsesOf(id) : is_any(u.kind)

\* C4: when allocate() returns Ok, every interval with ranges has a
\* Register or a Stack value
AllValuesConcrete ==
  ReturnedOk =>
    \A id \in WithRanges : intervals[id].value.tag \in {"Register", "Stack"}

\* allocate() returned Ok with a split child on the stack and another
\* interval in a register
SpilledChildAndRegister ==
  /\ ReturnedOk
  /\ \E id \in WithRanges :
       intervals[id].parent # 0 /\ intervals[id].value.tag = "Stack"
  /\ \E id \in WithRanges :
       ~intervals[id].fixed /\ intervals[id].value.tag = "Register"

\* the pieces (root or split children) of `root` with a range covering pos
PiecesAt(root, pos) ==
  {id \in {root} \cup {intervals[root].children[k] :
                         k \in DOMAIN intervals[root].children} :
     Covers(intervals[id], pos)}

RootOf(id) == IF intervals[id].parent # 0 THEN intervals[id].parent ELSE id

MovesIn(pos) == {gaps[pos][k] : k \in DOMAIN gaps[pos]}

\* the moves resolve_data_flow has added
DataFlowMoves == {hist.log[k] : k \in {i \in DOMAIN hist.log : hist.log[i].ev = "move"}}

\* the edges (b, s) of the graph
Edges == {e \in (DOMAIN blocks) \X (DOMAIN blocks) :
            \E k \in DOMAIN blocks[e[1]].successors : blocks[e[1]].successors[k] = e[2]}

EdgeGap(b, s) == IF Len(blocks[b].successors) = 2 THEN blocks[s].start
                 ELSE blocks[b].end - 1

\* C5: after resolve_data_flow, for every edge b -> s and every interval
\* live into s, if the piece live at b.end-1 differs from the piece live
\* at s.start then Move(from, to) is in the gap at s.start when b has two
\* successors and in the gap at b.end-1 otherwise; and every move that
\* resolve_data_flow added joins two different pieces of such an edge
EdgeMovesResolved ==
  pc = "resolve_gaps" =>
    /\ \A e \in Edges : \A v \in blocks[e[2]].live_in :
         \A from \in PiecesAt(RootOf(v), blocks[e[1]].end - 1) :
           \A to \in PiecesAt(RootOf(v), blocks[e[2]].start) :
             from # to => Move(from, to) \in MovesIn(EdgeGap(e[1], e[2]))
    /\ \A m \in DataFlowMoves :
         /\ m.a # m.b
         /\ \E e \in Edges :
              /\ m.id \in blocks[e[2]].live_in
              /\ m.d = EdgeGap(e[1], e[2])
              /\ m.a \in PiecesAt(RootOf(m.id), blocks[e[1]].end - 1)
              /\ m.b \in PiecesAt(RootOf(m.id), blocks[e[2]].start)

\* resolve_data_flow has put a move at the start of a successor of a
\* branching block and a move at the end of a block with one successor
MovesOnBothKindsOfEdge ==
  /\ pc = "resolve_gaps"
  /\ \E m \in DataFlowMoves : block_boundary(m.d)
  /\ \E m \in DataFlowMoves : ~block_boundary(m.d)

\* the positions a list of ranges covers
Positions(rs) == UNION {rs[k].start .. (rs[k].end - 1) : k \in DOMAIN rs}

PiecesOf(root) ==
  {root} \cup {intervals[root].children[k] : k \in DOMAIN intervals[root].children}

\* the intervals that existed before the first split
Roots == DOMAIN hist.orig

\* C6: whatever split_at calls were made on a root interval and its
\* children, the ranges of the root and its children together cover
\* exactly the positions the root's ranges covered before the first split,
\* and no two of these pieces cover a common position
SplitKeepsRanges ==
  \A root \in Roots :
    /\ UNION {Positions(intervals[id].ranges) : id \in PiecesOf(root)}
         = Positions(hist.orig[root])
    /\ \A a \in PiecesOf(root) : \A b \in PiecesOf(root) :
         a # b => Positions(intervals[a].ranges)
                    \cap Positions(intervals[b].ranges) = {}

\* a root interval has been split twice, once of them in the middle of a
\* range
SplitTwice ==
  \E root \in Roots :
    /\ Len(intervals[root].children) >= 2
    /\ \E id \in PiecesOf(root) : \E k \in DOMAIN hist.orig[root] :
         /\ Len(intervals[id].ranges) > 0
         /\ hist.orig[root][k].start < Start(intervals[id])
         /\ Start(intervals[id]) < hist.orig[root][k].end

\* build_ranges has run, so the intervals have their ranges and uses
RangesBuilt == pc \notin {"prepare", "build_ranges"}

\* C7 as stated: once build_ranges has run, and after every later split,
\* each use of an interval with ranges lies at a position that one of the
\* interval's own ranges covers (start <= pos < end)
UsesCovered ==
  RangesBuilt =>
    \A id \in WithRanges : \A u \in UsesOf(id) : Covers(intervals[id], u.pos)

\* C7: once build_ranges has run, and after every later split, each use of
\* an interval with ranges lies inside or at the end of one of the
\* interval's own ranges (start <= pos <= end)
UsesWithinRanges ==
  RangesBuilt =>
    \A id \in WithRanges : \A u \in UsesOf(id) :
      \E k \in DOMAIN intervals[id].ranges :
        /\ intervals[id].ranges[k].start <= u.pos
        /\ u.pos <= intervals[id].ranges[k].end

\* an interval was split at a clobbering position and kept its use there,
\* and some interval has its last use as an input at the end of its range
UseAtSplitAndLastInput ==
  /\ RangesBuilt
  /\ \E id \in WithRanges : \E u \in UsesOf(id) :
       /\ u.pos = End(intervals[id])
       /\ clobbers(intervals[id].value.group, u.pos)
       /\ \E c \in PiecesOf(RootOf(id)) :
            Len(intervals[c].ranges) > 0 /\ Start(intervals[c]) = u.pos
  /\ \E id \in WithRanges :
       /\ Len(intervals[id].children) = 0 /\ intervals[id].parent = 0
       /\ \E u \in UsesOf(id) : u.pos = End(intervals[id])

\* the splits the last step made
SplitEvents ==
  {hist.log[k] : k \in {i \in DOMAIN hist.log : hist.log[i].ev = "split_at"}}

\* every split is at a position after the start of the piece it splits, and
\* the child it makes starts at that position or later
SplitsAdvance ==
  \A e \in SplitEvents :
    /\ e.a > e.b
    /\ Start(intervals[e.d]) >= e.a

\* how many unhandled intervals without a value start at position p; only
\* these are allocated, and so split, when they are popped
UnhandledAt(p) ==
  Cardinality({k \in DOMAIN state.unhandled :
                 /\ is_virtual(intervals[state.unhandled[k]].value)
                 /\ Start(intervals[state.unhandled[k]]) = p})

\* the unhandled list shrinks: in the lexicographic order of the start
\* positions of its intervals without a value (one fewer starts at some
\* position and the same start before it), or else in length
UnhandledShrinks ==
  \/ \E p \in DOMAIN instructions :
       /\ UnhandledAt(p)' < UnhandledAt(p)
       /\ \A q \in 0 .. (p - 1) : UnhandledAt(q)' = UnhandledAt(q)
  \/ /\ \A p \in DOMAIN instructions : UnhandledAt(p)' = UnhandledAt(p)
     /\ Len(state.unhandled') < Len(state.unhandled)

\* the steps of allocate() in program order
StageOf(at) ==
  CASE at = "prepare" -> 0
    [] at = "build_ranges" -> 1
    [] at = "walk_start" -> 2
    [] at = "walk" -> 3
    [] at = "resolve_data_flow" -> 4
    [] at = "resolve_gaps" -> 5
    [] at = "verify" -> 6
    [] at = "done" -> 7

\* a step goes on to a later step of allocate(), to the walk of the next
\* group, or is a turn of the walk loop that shrinks the unhandled list
StepAdvances ==
  \/ StageOf(pc') > StageOf(pc) /\ group_idx' >= group_idx
  \/ pc = "walk" /\ pc' = "walk_start" /\ group_idx' > group_idx
  \/ pc = "walk" /\ pc' = "walk" /\ group_idx' = group_idx /\ UnhandledShrinks

\* C8: allocate() terminates: every step of it advances a measure that
\* cannot go down for ever; in particular every turn of the loop of
\* walk_intervals shrinks the unhandled list (or ends allocate() with an
\* Err or a failed assertion) although splits push new intervals onto it,
\* because every split position is strictly greater than the start of the
\* interval that is split
AllocateTerminates == [][StepAdvances /\ SplitsAdvance']_vars

\* allocate() returned Ok after a walk that split intervals and pushed the
\* children onto unhandled
ReturnedAfterSplits ==
  /\ ReturnedOk
  /\ \E root \in Roots : Len(intervals[root].children) >= 2
  /\ \E g \in DOMAIN results : results[g] > 0

\* the decisions of allocate_blocked_reg in the last step: the interval,
\* the position of its first non-Any use (a), use_pos of the selected
\* register (b) and the interval's start (d)
BlockedEvents ==
  {hist.log[k] : k \in {i \in DOMAIN hist.log : hist.log[i].ev = "blocked"}}

\* C9: allocate() returns Err("Incorrect input, allocation impossible")
\* exactly when allocate_blocked_reg ran for an interval whose first
\* non-Any use is at its own start and use_pos of the selected register is
\* less than that position
ImpossibleExactly ==
  (result = ErrImpossible) <=> (\E e \in BlockedEvents : e.a = e.d /\ e.b < e.a)

\* allocate() returned the Err for an interval with a register use at its
\* start
ImpossibleReturned ==
  /\ pc = "done"
  /\ result = ErrImpossible
  /\ \E e \in BlockedEvents : e.a = e.d /\ e.b < e.a

\* some instruction of the input has a temporary of a group it clobbers
TempOnCall ==
  \E b \in DOMAIN program.blocks : \E k \in DOMAIN program.blocks[b].instrs :
    LET kind == program.blocks[b].instrs[k].kind
    IN \E t \in DOMAIN kind.temporary : kind.temporary[t] \in kind.clobbers

\* C10: allocate() returns Err("Call instruction can't have temporary
\* registers") if and only if some instruction has a temporary whose group
\* the instruction clobbers; and then no walk, no data-flow resolution and
\* no gap resolution has been done: the walker's state is untouched, no
\* interval has a value, no group has a result and no gap has a move
TemporaryErrExactly ==
  pc = "done" =>
    /\ (result = ErrTemporary) <=> TempOnCall
    /\ result = ErrTemporary =>
         /\ state = NewState(0)
         /\ results = <<>>
         /\ \A pos \in DOMAIN gaps : gaps[pos] = <<>>
         /\ \A id \in DOMAIN intervals :
              ~intervals[id].fixed => is_virtual(intervals[id].value)

\* allocate() returned the Err for a call with a temporary
TemporaryErrReturned ==
  /\ pc = "done"
  /\ result = ErrTemporary
  /\ TempOnCall

\* what allocate() returns when it gives up
Errs == {ErrTemporary, ErrImpossible, "panic"}

\* one step of allocate() in the order of its phases
PhaseStep ==
  \/ /\ pc = "prepare" /\ pc' = "build_ranges"
  \/ /\ pc = "build_ranges" /\ pc' = "walk_start"
     /\ group_idx' = 1 /\ results' = <<>>
  \/ /\ pc = "walk_start" /\ pc' = "walk"
     /\ state'.group = group_idx - 1 /\ Len(results) = group_idx - 1
  \/ /\ pc = "walk" /\ pc' = "walk"
     /\ state'.group = state.group /\ UNCHANGED <<group_idx, results>>
  \/ /\ pc = "walk" /\ pc' = "walk_start" /\ group_idx < NumGroups
     /\ group_idx' = group_idx + 1
     /\ results' = Append(results, state.spill_count)
  \/ /\ pc = "walk" /\ pc' = "resolve_data_flow" /\ group_idx = NumGroups
     /\ results' = Append(results, state.spill_count)
  \/ /\ pc = "resolve_data_flow" /\ pc' = "resolve_gaps"
     /\ hist.pre = <<>> /\ Len(results) = NumGroups
  \/ /\ pc = "resolve_gaps" /\ pc' = "verify"
     /\ hist'.pre = gaps
     /\ \A m \in DataFlowMoves : Move(m.a, m.b) \in MovesIn(m.d)
  \/ /\ pc = "verify" /\ pc' = "done" /\ result' \in {"ok", "panic"}
  \/ /\ pc = "build_ranges" /\ pc' = "done"
     /\ result' \in {ErrTemporary, "panic"}
  \/ /\ pc = "walk" /\ pc' = "done"
     /\ result' \in {ErrImpossible, "panic"}
  \/ /\ pc = "resolve_data_flow" /\ pc' = "done" /\ result' = "panic"

\* after a phase gave up, no later phase has left a trace: the groups
\* not yet walked have no result, no walk is under way for them, no
\* data-flow move was logged and no gap was handed to the gap resolution
NothingAfterErr ==
  (pc' = "done" /\ result' \in Errs /\ pc # "verify") =>
    /\ results' = results
    /\ Len(results') < NumGroups \/ pc = "resolve_data_flow"
    /\ state'.group = state.group
    /\ hist'.pre = <<>>
    /\ pc # "resolve_data_flow" => DataFlowMoves' = {}

\* C11: allocate() runs prepare, build_ranges, one walk per group in the
\* order of the groups, resolve_data_flow, resolve_gaps and verify in this
\* order; an Err of build_ranges or of a walk is what allocate() returns,
\* and then no later phase runs; the gaps that resolve_gaps works on hold
\* the moves of resolve_data_flow
PhasesInOrder == [][PhaseStep /\ NothingAfterErr]_vars

\* allocate() returned Ok after a walk of every group, and the gap
\* resolution found moves in a gap
AllPhasesRun ==
  /\ ReturnedOk
  /\ Len(results) = NumGroups
  /\ \E pos \in DOMAIN hist.pre : hist.pre[pos] # <<>> /\ gaps[pos] # <<>>

\* the virtual intervals of group g that build_ranges gave ranges to
VirtualRoots(g) ==
  {id \in Roots : /\ ~intervals[id].fixed /\ hist.orig[id] # <<>>
                  /\ intervals[id].value.group = g}

\* those of them that are live at position p
LiveAt(g, p) ==
  {id \in VirtualRoots(g) :
     \E k \in DOMAIN hist.orig[id] : RangeCovers(hist.orig[id][k], p)}

\* no instruction clobbers g and no interval of g has a fixed use
NoCallNoFixed(g) ==
  /\ \A p \in DOMAIN instructions : ~clobbers(g, p)
  /\ \A id \in DOMAIN intervals :
       (~intervals[id].fixed /\ intervals[id].value.group = g)
       => \A u \in UsesOf(id) : ~is_fixed(u.kind)

\* the pieces of group g that hold a stack slot
StackPieces(g) ==
  {id \in DOMAIN intervals : /\ intervals[id].value.tag = "Stack"
                             /\ intervals[id].value.group = g}

\* allocation succeeded with one spilled piece and one slot in group g
OneSpill(g) ==
  /\ result = "ok"
  /\ Cardinality(StackPieces(g)) = 1
  /\ results[g + 1] = 1
  /\ NoDoubleBooking

\* C12 as stated: with N registers, no clobbering instruction and no fixed
\* use, N+1 intervals live at one position and never more than N+1
\* anywhere give one spilled piece and spill_count 1
OneSpillUnderPressure ==
  pc = "done" =>
    \A g \in Groups :
      ( /\ NoCallNoFixed(g)
        /\ \E p \in DOMAIN instructions : Cardinality(LiveAt(g, p)) = registers + 1
        /\ \A p \in DOMAIN instructions : Cardinality(LiveAt(g, p)) <= registers + 1 )
      => OneSpill(g)

\* C12: with N registers in a group, no clobbering instruction, no fixed
\* use and no register use (every use is of kind Any), if the group has
\* exactly N+1 virtual intervals and all of them are live at one common
\* position, allocation succeeds, exactly one piece receives a Stack value,
\* spill_count of the group is 1 and no register is double-booked
OneSpillOfAnyUses ==
  pc = "done" =>
    \A g \in Groups :
      ( /\ NoCallNoFixed(g)
        /\ \A r \in VirtualRoots(g) : \A id \in PiecesOf(r) :
             \A u \in UsesOf(id) : is_any(u.kind)
        /\ Cardinality(VirtualRoots(g)) = registers + 1
        /\ \E p \in DOMAIN instructions : LiveAt(g, p) = VirtualRoots(g) )
      => OneSpill(g)

\* allocate() returned for two intervals with uses of kind Any that are
\* live together and share one register: one holds it, one is on the stack
TwoLiveOneRegister ==
  /\ pc = "done"
  /\ registers = 1
  /\ NoCallNoFixed(0)
  /\ \A r \in VirtualRoots(0) : \A id \in PiecesOf(r) :
       \A u \in UsesOf(id) : is_any(u.kind)
  /\ Cardinality(VirtualRoots(0)) = 2
  /\ \E p \in DOMAIN instructions : LiveAt(0, p) = VirtualRoots(0)
  /\ OneSpill(0)
  /\ \E id \in VirtualRoots(0) : intervals[id].value.tag = "Register"

\* the positions whose instruction clobbers group g
CallPositions(g) == {p \in DOMAIN instructions : clobbers(g, p)}

\* C13: after allocate() returns Ok, no interval other than the fixed ones
\* that holds a register of group g has a range covering a position whose
\* instruction clobbers g
NoRegisterAcrossCall ==
  ReturnedOk =>
    \A id \in WithRanges :
      (~intervals[id].fixed /\ intervals[id].value.tag = "Register")
      => \A p \in CallPositions(intervals[id].value.group) :
           ~Covers(intervals[id], p)

\* allocate() returned Ok for a value that is live across a call: at the
\* call it is on the stack, before or after the call it is in a register
SpilledAcrossCall ==
  /\ ReturnedOk
  /\ \E r \in VirtualRoots(0) : \E p \in CallPositions(0) :
       /\ \E k \in DOMAIN hist.orig[r] :
            hist.orig[r][k].start < p /\ p + 1 < hist.orig[r][k].end
       /\ \E id \in PiecesOf(r) :
            Covers(intervals[id], p) /\ intervals[id].value.tag = "Stack"
       /\ \E id \in PiecesOf(r) : intervals[id].value.tag = "Register"

\* the pop of the last turn of the walk: e.id was popped at position e.a
PopEvents ==
  {hist.log[k] : k \in {i \in DOMAIN hist.log : hist.log[i].ev = "pop"}}

\* interval id of the walked group holds a stack slot and its last range
\* ended at or before position p, which the walk has reached
HandledOnStack(id, p) ==
  /\ ~intervals[id].fixed
  /\ intervals[id].value.tag = "Stack"
  /\ intervals[id].value.group = state.group
  /\ \A k \in DOMAIN state.unhandled : state.unhandled[k] # id
  /\ End(intervals[id]) <= p

\* C14: in walk_intervals, once the walk position has reached the end of an
\* interval that holds a stack slot, the slot is in the spills free list,
\* or a later interval has taken it from there
HandledSlotsReturned ==
  pc = "walk" =>
    \A e \in PopEvents : \A id \in DOMAIN intervals :
      HandledOnStack(id, e.a) =>
        \/ \E k \in DOMAIN state.spills :
             state.spills[k] = intervals[id].value
        \/ \E j \in DOMAIN intervals :
             /\ j # id /\ intervals[j].value = intervals[id].value
             /\ Start(intervals[j]) >= End(intervals[id])

\* C15: no two intervals of a group whose ranges cover a common position
\* hold the same stack slot, and every slot handed out for a group is
\* smaller than the group's spill_count (the walker's while it walks the
\* group, the reported one after allocate() returned Ok)
SlotsNotShared ==
  /\ \A a \in WithRanges : \A b \in WithRanges :
       (a # b /\ intervals[a].value.tag = "Stack"
              /\ intervals[b].value = intervals[a].value)
       => \A p \in DOMAIN instructions :
            ~(Covers(intervals[a], p) /\ Covers(intervals[b], p))
  /\ \A id \in DOMAIN intervals :
       intervals[id].value.tag = "Stack" =>
         /\ (pc = "walk" /\ intervals[id].value.group = state.group)
            => intervals[id].value.n < state.spill_count
         /\ ReturnedOk
            => intervals[id].value.n < results[intervals[id].value.group + 1]

\* allocate() returned Ok and two intervals that are on the stack at the
\* same position hold two different slots
TwoSlotsAtOnce ==
  /\ ReturnedOk
  /\ \E a \in WithRanges : \E b \in WithRanges :
       /\ intervals[a].value.tag = "Stack" /\ intervals[b].value.tag = "Stack"
       /\ intervals[a].value.n # intervals[b].value.n
       /\ \E p \in DOMAIN instructions :
            Covers(intervals[a], p) /\ Covers(intervals[b], p)

\* two turns of the walk of one group, one after the other: the interval
\* popped second starts no earlier than the one popped first, and when
\* both start at the same position the one pushed onto unhandled first
\* (the one with the smaller id: ids are given in the order of creation,
\* and unhandled is filled in the order of the ids) is popped first
PopsAdvance ==
  (pc = "walk" /\ pc' = "walk") =>
    \A e \in PopEvents : \A f \in PopEvents' :
      /\ e.a <= f.a
      /\ e.a = f.a => e.id < f.id

\* C16: the intervals popped from unhandled by walk_intervals have
\* non-decreasing start positions, also after split_and_spill has pushed
\* new intervals, and intervals with equal start are popped in the order
\* in which they were pushed
PopsInStartOrder == [][PopsAdvance]_vars

\* from value v to value w in one step of allocate()
ValueMove(id, v, w) ==
  \/ v = w
  \/ /\ v.tag = "Virtual" /\ w.tag \in {"Register", "Stack"}
     /\ w.group = v.group
  \/ /\ v.tag = "Register" /\ w.tag = "Stack" /\ w.group = v.group
     /\ intervals[id].parent # 0

\* no interval disappears, the value of each makes one of the allowed
\* moves, and an interval made in this step that is not a fixed one has
\* not been given a register in the step that made it
ValueStep ==
  /\ \A id \in DOMAIN intervals :
       /\ id \in DOMAIN intervals'
       /\ ValueMove(id, intervals[id].value, intervals'[id].value)
  /\ \A id \in DOMAIN intervals' :
       id \notin DOMAIN intervals =>
         \/ intervals'[id].fixed
         \/ intervals'[id].value.tag \in {"Virtual", "Stack"}
  /\ pc = "prepare" =>
       \A id \in DOMAIN intervals' :
         ~intervals'[id].fixed => is_virtual(intervals'[id].value)

\* C17: every interval's value starts Virtual, and the value of an
\* interval only ever goes from Virtual to Register, from Virtual to Stack
\* or (for a split child) from Register to Stack: never back to Virtual,
\* never from Stack to Register, never from one register to another
ValuesOnlyAdvance == [][ValueStep]_vars

\* allocate() returned Ok with a root in a register, one of its children
\* on the stack and another one in a register
ValuesOfAllKinds ==
  /\ ReturnedOk
  /\ \E r \in VirtualRoots(0) :
       /\ intervals[r].value.tag = "Register"
       /\ \E id \in PiecesOf(r) : id # r /\ intervals[id].value.tag = "Stack"
       /\ \E id \in PiecesOf(r) : id # r /\ intervals[id].value.tag = "Register"

\* the next turn of the walk will run the free-register policy
AtFreePolicy ==
  /\ pc = "walk" /\ Len(state.unhandled) > 0 /\ registers > 0
  /\ is_virtual(intervals[state.unhandled[1]].value)
  /\ get_hint(intervals, state.unhandled[1]) # -2
  /\ ActiveOk(WalkPop(Ctx))
  /\ IntersectingOk(WalkPop(Ctx), state.unhandled[1])

\* sel is what the claim says of the selection for interval i, the
\* positions vec up to which the registers are free, and the hint
RightSelection(i, vec, hint, sel) ==
  /\ \A k \in DOMAIN i.uses :
       is_fixed(i.uses[k].kind) => sel.reg = i.uses[k].kind.reg
  /\ (\A k \in DOMAIN i.uses : ~is_fixed(i.uses[k].kind)) =>
       /\ \A r \in Registers : vec[r] <= vec[sel.reg]
       /\ sel.max_pos = vec[sel.reg]
       /\ (hint >= 0 /\ vec[hint] = vec[sel.reg]) => sel.reg = hint

SelectionFor(i, vec, hint) == RightSelection(i, vec, hint, select_reg(i, vec, hint))

\* C18: in the free-register policy, if current has a use Fixed(g, r) the
\* selected register is r; otherwise the selected register has the maximum
\* free_pos of all registers of the group, and it is the hinted register
\* whenever the hinted register has that maximum
FreePolicySelects ==
  AtFreePolicy =>
    SelectionFor(intervals[state.unhandled[1]],
                 free_pos(WalkPop(Ctx), state.unhandled[1]),
                 get_hint(intervals, state.unhandled[1]))

----------------------------------------------------------------------------
(* Properties of the builder *)

\* the builder call of the last step
Calls == {hist.log[k] : k \in DOMAIN hist.log}

\* what a builder call may do to block b
BlockStep(b) ==
  /\ graph.blocks[b].ended =>
       /\ graph'.blocks[b].ended
       /\ graph'.blocks[b].instructions = graph.blocks[b].instructions
       /\ \A e \in Calls' :
            (e.id = b /\ e.ev \in {"add", "add_existing", "to_phi",
                                   "end", "goto", "branch"})
            => graph'.status = "panic"
  /\ (~graph.blocks[b].ended /\ graph'.blocks[b].ended) =>
       /\ graph'.status = "ok"
       /\ graph.blocks[b].instructions # <<>>
       /\ \E e \in Calls' : e.id = b /\ e.ev \in {"end", "goto", "branch"}
  /\ (graph.blocks[b].instructions = <<>> /\ ~graph.blocks[b].ended) =>
       \A e \in Calls' : (e.id = b /\ e.ev = "end") => graph'.status = "panic"

\* C19: the ended flag of a block only goes from open to ended, and only
\* in a call of end(), goto() or branch() on that block; the instruction
\* list of an ended block never changes: add, add_existing and to_phi on
\* it fail by assertion, and so does a second end, goto or branch; end()
\* fails on a block without instructions
EndedIsFinal == [][\A b \in DOMAIN graph.blocks : BlockStep(b)]_vars

\* a call that adds to an ended block has failed, and the block holds what
\* it held when it was ended
AddToEndedFailed ==
  /\ graph.status = "panic"
  /\ \E e \in Calls :
       /\ e.ev \in {"add", "add_existing", "to_phi"}
       /\ graph.blocks[e.id].ended
       /\ Len(graph.blocks[e.id].instructions) = 1
\* C20: while no call has failed, every block has at most two successors
\* and at most two predecessors
AtMostTwoEdges ==
  graph.status = "ok" =>
    \A b \in DOMAIN graph.blocks :
      /\ Len(graph.blocks[b].successors) <= 2
      /\ Len(graph.blocks[b].predecessors) <= 2

\* the roots get_value is asked about: the intervals of the values of the
\* program, which all have ranges
ValueRoots ==
  {id \in DOMAIN intervals :
     intervals[id].parent = 0 /\ ~intervals[id].fixed
     /\ Len(intervals[id].ranges) > 0}

\* the pieces of `root` that carry a use at pos
PiecesUsedAt(root, pos) ==
  {id \in PiecesOf(root) : \E u \in UsesOf(id) : u.pos = pos}

\* C21 as stated: after allocate() returned Ok, get_value(interval, pos) is
\* the value of the piece that is live at pos wherever a piece of the
\* interval is live
GetValueWhereLive ==
  ReturnedOk =>
    \A root \in ValueRoots : \A pos \in DOMAIN instructions :
      PiecesAt(root, pos) # {} =>
        \E id \in PiecesAt(root, pos) :
          get_value(intervals, root, pos) = intervals[id].value

\* C21: after allocate() returned Ok, get_value(interval, pos) is Some(v) at
\* every position where a piece (root or split child) of the interval has
\* a use, v being the Register or Stack value of that piece, and None at
\* every other position, also where the interval is live
GetValueAtUses ==
  ReturnedOk =>
    \A root \in ValueRoots : \A pos \in DOMAIN instructions :
      LET v == get_value(intervals, root, pos)
      IN IF PiecesUsedAt(root, pos) = {} THEN v = NoValue
         ELSE /\ v.tag \in {"Register", "Stack"}
              /\ \A id \in PiecesUsedAt(root, pos) : v = intervals[id].value

\* allocate() returned Ok for an interval that was split: get_value gives
\* the value of a split child at a use of the child, which differs from
\* the root's, and None at a position where the root is live without a use
GetValueOfSplitChild ==
  /\ ReturnedOk
  /\ \E root \in ValueRoots :
       /\ \E pos \in DOMAIN instructions : \E id \in PiecesUsedAt(root, pos) :
            /\ id # root
            /\ intervals[id].value # intervals[root].value
            /\ get_value(intervals, root, pos) = intervals[id].value
       /\ \E pos \in DOMAIN instructions :
            /\ Covers(intervals[root], pos)
            /\ get_value(intervals, root, pos) = NoValue

\* the locations (registers and stack slots) the intervals are in
Locations == {intervals[id].value : id \in DOMAIN intervals}

\* what the locations hold after the actions of a gap are executed one
\* after the other, from the k-th on: a Move copies the content of its
\* source to its target, a Swap exchanges the contents of the two
RECURSIVE Execute(_, _, _)
Execute(acts, k, holds) ==
  IF k > Len(acts) THEN holds
  ELSE LET from == intervals[acts[k].from].value
           to == intervals[acts[k].to].value
       IN Execute(acts, k + 1,
                  IF acts[k].kind = "Swap"
                  THEN [holds EXCEPT ![from] = holds[to], ![to] = holds[from]]
                  ELSE [holds EXCEPT ![to] = holds[from]])

\* the resolved actions of the gap at pos, executed in order, put into the
\* target of every original move what its source held before the gap
SequentialIsParallel(pos) ==
  LET after == Execute(gaps[pos], 1, [l \in Locations |-> l])
  IN \A k \in DOMAIN hist.pre[pos] :
       after[intervals[hist.pre[pos][k].to].value]
         = intervals[hist.pre[pos][k].from].value

\* no action after a Move reads the location the Move has written
MovesNotReadLater(pos) ==
  \A k \in DOMAIN gaps[pos] : \A j \in DOMAIN gaps[pos] :
    (gaps[pos][k].kind = "Move" /\ j > k
       /\ intervals[gaps[pos][k].from].value # intervals[gaps[pos][k].to].value)
    => /\ intervals[gaps[pos][j].from].value # intervals[gaps[pos][k].to].value
       /\ gaps[pos][j].kind = "Swap"
          => intervals[gaps[pos][j].to].value # intervals[gaps[pos][k].to].value

\* the moves of a gap, as moves between locations, are a -> b and b -> a
PureCycle(ms) ==
  LET locs == {<<intervals[ms[k].from].value, intervals[ms[k].to].value>> :
                 k \in DOMAIN ms}
  IN \E a \in Locations : \E b \in Locations :
       a # b /\ locs = {<<a, b>>, <<b, a>>}

\* C22: for every gap, the resolved action list executed sequentially
\* gives each target location what the original moves executed in parallel
\* give it; no later action reads what a Move has overwritten; and a pure
\* cycle a -> b, b -> a is resolved to Swaps only, never to two Moves
GapsSerialised ==
  pc = "verify" =>
    \A pos \in DOMAIN gaps :
      /\ SequentialIsParallel(pos)
      /\ MovesNotReadLater(pos)
      /\ PureCycle(hist.pre[pos]) =>
           /\ Len(gaps[pos]) >= 1
           /\ \A k \in DOMAIN gaps[pos] : gaps[pos][k].kind = "Swap"

\* a gap whose two moves were a pure cycle has been resolved to one Swap
CycleAndChainResolved ==
  /\ pc = "verify"
  /\ \E pos \in DOMAIN gaps :
       /\ PureCycle(hist.pre[pos])
       /\ Len(hist.pre[pos]) = 2 /\ Len(gaps[pos]) = 1

\* the calls of optimal_split_pos in the last step: group (id), start (a),
\* end (b) and the position returned (d), -1 for a failed assertion
AskedEvents ==
  {hist.log[k] :
     k \in {i \in DOMAIN hist.log : hist.log[i].ev = "optimal_split_pos"}}

\* C23: every call optimal_split_pos(group, start, end) the allocator
\* makes has start <= end and returns p with start < p <= end where the
\* instruction at p is a gap or clobbers the group
SplitPosInRange ==
  \A e \in AskedEvents :
    /\ e.a <= e.b
    /\ e.a < e.d /\ e.d <= e.b
    /\ is_gap(e.d) \/ clobbers(e.id, e.d)

\* split_fixed has run to its end
FixedSplit == RangesBuilt /\ result \in {"none", "ok"}

\* C24: after split_fixed every interval (root or split child) has at most
\* one use of kind Fixed
OneFixedUseEach ==
  FixedSplit =>
    \A id \in DOMAIN intervals : Len(FixedUses(intervals[id])) <= 1

\* the split_at calls of the last step: the piece that was split (piece),
\* the interval the call named (id) and its root (root), the position, the
\* child made, and the uses, the gap and the root's children before and
\* after the call
SplitCalls ==
  {hist.log[k].d :
     k \in {i \in DOMAIN hist.log : hist.log[i].ev = "split"}}

\* the uses of a split call that stay on the piece that was split, as the
\* claim gives them
KeptUses(e) ==
  SelectSeq(e.uses,
    LAMBDA u : u.pos < e.pos
               \/ (u.pos = e.pos /\ clobbers(intervals[e.child].value.group, e.pos)))

MovedUses(e) ==
  SelectSeq(e.uses,
    LAMBDA u : u.pos > e.pos
               \/ (u.pos = e.pos /\ ~clobbers(intervals[e.child].value.group, e.pos)))

\* C25: split_at(id, pos) leaves on the piece it splits the uses before
\* pos, and those at pos when the instruction at pos clobbers the group,
\* and gives the child all the others; both lists keep the order of the
\* uses and no use is lost or doubled
SplitPartitionsUses ==
  \A e \in SplitCalls :
    /\ e.kept = KeptUses(e)
    /\ e.moved = MovedUses(e)
    /\ Len(e.kept) + Len(e.moved) = Len(e.uses)

\* a split at a call has left the use at the call on the piece that was
\* split and has given the uses after the call to the child
SplitAtCallKeepsUse ==
  \E e \in SplitCalls :
    /\ clobbers(intervals[e.child].value.group, e.pos)
    /\ \E k \in DOMAIN e.kept : e.kept[k].pos = e.pos
    /\ e.moved # <<>>

\* pos is the first position of a block or the position after its last
IsBlockEdge(pos) ==
  \E b \in DOMAIN blocks :
    /\ blocks[b].start <= pos /\ pos <= blocks[b].end
    /\ instructions[pos].block = b
    /\ pos \in {blocks[b].start, blocks[b].end}

\* C26: split_at(id, pos) appends exactly one Move(split_parent, child) to
\* the gap state at pos when pos clobbers the group or is not a start or
\* end of its block, and nothing when pos is a block boundary that does
\* not clobber; split_parent is the piece of the root of id whose ranges
\* cover pos
SplitInsertsMove ==
  \A e \in SplitCalls :
    /\ e.gap_after =
         IF clobbers(intervals[e.child].value.group, e.pos)
            \/ ~IsBlockEdge(e.pos)
         THEN Append(e.gap, Move(e.piece, e.child))
         ELSE e.gap
    /\ e.root = (IF intervals[e.id].parent # 0 THEN intervals[e.id].parent
                 ELSE e.id)
    /\ e.piece \in {e.root} \cup {e.children[k] : k \in DOMAIN e.children}
    /\ \E k \in DOMAIN e.ranges : RangeCovers(e.ranges[k], e.pos)

\* in one step a split at a block boundary has added no move, and a split
\* of a piece other than the interval named in the call has added one
SplitWithAndWithoutMove ==
  /\ \E e \in SplitCalls : e.gap_after = e.gap /\ IsBlockEdge(e.pos)
  /\ \E e \in SplitCalls : e.piece # e.id /\ e.gap_after # e.gap

\* the split children of `root`: the intervals whose parent it is
Descendants(root) == {id \in DOMAIN intervals : intervals[id].parent = root}

\* C27: after any sequence of split_at calls, every split child has a root
\* as its parent (never another child); the children list of a root holds
\* each of its descendants exactly once, in increasing order of range
\* start; a child has the group of its root; and the hint of a child is
\* the piece it was split from
SplitFamilies ==
  /\ \A id \in DOMAIN intervals :
       intervals[id].parent # 0 =>
         /\ intervals[intervals[id].parent].parent = 0
         /\ intervals[id].children = <<>>
         /\ intervals[id].value.group
              = intervals[intervals[id].parent].value.group
         /\ intervals[id].hint \in PiecesOf(intervals[id].parent) \ {id}
  /\ \A root \in DOMAIN intervals :
       LET ch == intervals[root].children
       IN /\ {ch[k] : k \in DOMAIN ch} = Descendants(root)
          /\ \A j \in DOMAIN ch : \A k \in DOMAIN ch :
               j < k => /\ ch[j] # ch[k]
                        /\ Start(intervals[ch[j]]) < Start(intervals[ch[k]])
  /\ \A e \in SplitCalls : intervals[e.child].hint = e.piece

\* a root has children, one of them was inserted before an older child,
\* and one was split from a child and not from the root
ChildInsertedBefore ==
  \E root \in DOMAIN intervals :
    LET ch == intervals[root].children
    IN /\ Len(ch) >= 2
       /\ \E j \in DOMAIN ch : \E k \in DOMAIN ch : j < k /\ ch[j] > ch[k]
       /\ \E k \in DOMAIN ch : intervals[ch[k]].hint # root

\* C28: once build_ranges has run, and after every later split, the ranges
\* of every interval are sorted by start and do not overlap, and every
\* range has start < end
RangesWellFormed ==
  RangesBuilt =>
    \A id \in DOMAIN intervals :
      LET rs == intervals[id].ranges
      IN /\ \A k \in DOMAIN rs : rs[k].start < rs[k].end
         /\ \A j \in DOMAIN rs : \A k \in DOMAIN rs :
              j < k => rs[j].end <= rs[k].start

\* the output of a call got a range that starts after the call and goes on
\* past the next instruction, and a split has cut one of its ranges
RangeShortenedAndCut ==
  /\ RangesBuilt
  /\ \E p \in DOMAIN instructions :
       LET o == instructions[p].output
       IN /\ o # 0
          /\ clobbers(intervals[o].value.group, p)
          /\ hist.orig[o][1].start = p + 1
          /\ hist.orig[o][1].end > p + 2
          /\ \E c \in Descendants(o) : \E k \in DOMAIN hist.orig[o] :
               /\ hist.orig[o][k].start < Start(intervals[c])
               /\ Start(intervals[c]) < hist.orig[o][k].end

\* the add_range calls of the last step whose assertion failed: the
\* interval (id), the range asked for (a, b) and the start of the
\* interval's first range (d)
AddRangeFailures ==
  {hist.log[k] :
     k \in {i \in DOMAIN hist.log : hist.log[i].ev = "add_range failed"}}

\* C29: during build_ranges every call of add_range satisfies its
\* assertion: the range list is empty or the new range ends at or before
\* the start of the first range
AddRangeAsserts == AddRangeFailures = {}

\* the migration steps in a log: the popped interval (id), its start (a)
\* and, in d, the active and inactive lists the migration has left, the
\* intervals that left active and those that came back from inactive
Migrations(log) ==
  {log[k] : k \in {i \in DOMAIN log : log[i].ev = "migrated"}}

InList(id, list) == \E k \in DOMAIN list : list[k] = id

\* what holds of a turn of the loop of walk_intervals, the intervals being
\* those the turn started with
MigrationStep ==
  \A e \in Migrations(hist'.log) :
    /\ \A k \in DOMAIN e.d.active :
         /\ intervals[e.d.active[k]].value.tag = "Register"
         /\ Covers(intervals[e.d.active[k]], e.a)
    /\ \A k \in DOMAIN e.d.inactive :
         /\ intervals[e.d.inactive[k]].value.tag = "Register"
         /\ ~Covers(intervals[e.d.inactive[k]], e.a)
         /\ End(intervals[e.d.inactive[k]]) > e.a
    /\ \A k \in DOMAIN e.d.active : ~InList(e.d.active[k], e.d.inactive)
    /\ ~InList(e.id, e.d.active)
    /\ pc' = "walk" =>
         (InList(e.id, state'.active)
            <=> intervals'[e.id].value.tag = "Register")

\* C30: in walk_intervals, after the migration step for the popped current
\* at position pos, every active interval holds a register and has a range
\* covering pos, every inactive interval holds a register, has no range
\* covering pos and ends after pos, no interval is in both lists, and
\* current is pushed to active afterwards if and only if it holds a register
ActiveAndInactive == [][MigrationStep]_vars

\* a migration has moved an interval from active to inactive, has left an
\* interval of a value of the program in active, and current was pushed
\* to active afterwards
MigratedToInactive ==
  /\ pc = "walk"
  /\ \E e \in Migrations(hist.log) :
       /\ \E k \in DOMAIN e.d.left : InList(e.d.left[k], e.d.inactive)
       /\ \E k \in DOMAIN e.d.active : ~intervals[e.d.active[k]].fixed
       /\ InList(e.id, state.active)

----------------------------------------------------------------------------
(* allocate_free_reg *)

\* the call allocate_free_reg(current) of the next turn of the walk:
\* the state it starts from, what it selects and what it returns
FreeCall ==
  LET c == WalkPop(Ctx)
      current == state.unhandled[1]
      vec == free_pos(c, current)
      sel == select_reg(c.iv[current], vec, get_hint(c.iv, current))
  IN [c |-> c, current |-> current, free_pos |-> vec, reg |-> sel.reg,
      start |-> Start(c.iv[current]), end |-> End(c.iv[current]),
      ret |-> allocate_free_reg(c, current)]

\* the call returned true (and no assertion failed on the way)
FreeSucceeded(f) == f.ret.success /\ f.ret.c.status = "ok"

\* the ids of `list` that hold register reg
Holding(iv, list, reg) ==
  {list[k] : k \in {m \in DOMAIN list :
                      iv[list[m]].value.tag = "Register" /\ iv[list[m]].value.n = reg}}

\* the three failures the claim names
FreeMustFail(f) ==
  LET fp == f.free_pos[f.reg]
      group == f.c.st.group
  IN \/ fp = 0
     \/ f.start + 1 >= fp /\ fp < f.end
     \/ /\ f.start + 1 < fp /\ fp < f.end
        /\ optimal_split_pos(group, f.start, fp) = fp - 1
        /\ clobbers(group, fp)
        /\ next_use(f.c.iv[f.current], fp).pos # fp

\* C31: whenever allocate_free_reg returns success with register reg,
\* current holds reg, its ranges (after the split it may have made) end at
\* or before free_pos[reg], no active interval holds reg and no inactive
\* interval that holds reg intersects current; it returns failure and leaves
\* current's value alone when free_pos[reg] is 0, when
\* start + 1 >= free_pos[reg] < end, or when the split point is the gap
\* right before a call at free_pos[reg] and current has no register use at
\* that call
FreeRegIsFree ==
  AtFreePolicy =>
    LET f == FreeCall
        after == f.ret.c.iv
    IN /\ FreeSucceeded(f) =>
            /\ after[f.current].value = RegisterVal(f.c.st.group, f.reg)
            /\ End(after[f.current]) <= f.free_pos[f.reg]
            /\ Holding(f.c.iv, f.c.st.active, f.reg) = {}
            /\ \A id \in Holding(f.c.iv, f.c.st.inactive, f.reg) :
                 get_intersection(after, id, f.current) = -1
       /\ FreeMustFail(f) =>
            /\ ~f.ret.success
            /\ f.ret.c.iv[f.current].value = f.c.iv[f.current].value

\* allocate_free_reg split current in front of an inactive interval that
\* holds the selected register and intersected it
FreeRegAfterSplit ==
  /\ AtFreePolicy
  /\ LET f == FreeCall
     IN /\ FreeSucceeded(f)
        /\ End(f.ret.c.iv[f.current]) < f.end
        /\ \E id \in Holding(f.c.iv, f.c.st.inactive, f.reg) :
             get_intersection(f.c.iv, id, f.current) # -1

----------------------------------------------------------------------------
(* allocate_blocked_reg *)

\* the next turn of the walk will run the blocked-register policy
AtBlockedPolicy ==
  /\ AtFreePolicy
  /\ ~FreeCall.ret.success /\ FreeCall.ret.c.status = "ok"
  /\ get_hint(FreeCall.ret.c.iv, FreeCall.current) # -2

\* the call allocate_blocked_reg(current) of that turn
BlockedCall ==
  LET c == FreeCall.ret.c
      current == FreeCall.current
      vec == use_pos(c, current)
      sel == select_reg(c.iv[current], vec, get_hint(c.iv, current))
  IN [c |-> c, current |-> current, use_pos |-> vec, reg |-> sel.reg,
      start |-> Start(c.iv[current]), end |-> End(c.iv[current]),
      first_use |-> next_use(c.iv[current], 0),
      ret |-> allocate_blocked_reg(c, current)]

\* current has no non-Any use
BlockedNoUse(b) == b.first_use.pos = -1

\* every register is used before current's first non-Any use, which is
\* after current's start
BlockedTooEarly(b) ==
  /\ b.first_use.pos # -1
  /\ b.use_pos[b.reg] < b.first_use.pos
  /\ b.first_use.pos > b.start

\* current was spilled and not split
SpilledWhole(b) ==
  /\ b.ret.status = "ok"
  /\ b.ret.iv[b.current].value = spill_value(b.c.st)
  /\ b.ret.iv[b.current].value.tag = "Stack"
  /\ Len(b.ret.iv) = Len(b.c.iv)
  /\ b.ret.iv[b.current].ranges = b.c.iv[b.current].ranges
  /\ b.ret.st.unhandled = b.c.st.unhandled

\* current was spilled and split before its first register use: the child
\* is Virtual, is in unhandled and holds that use
SpilledAndSplit(b) ==
  /\ b.ret.status = "ok"
  /\ b.ret.iv[b.current].value.tag = "Stack"
  /\ Len(b.ret.iv) = Len(b.c.iv) + 1
  /\ LET child == Len(b.ret.iv)
         pos == Start(b.ret.iv[child])
     IN /\ b.start < pos /\ pos <= b.first_use.pos
        /\ End(b.ret.iv[b.current]) = pos
        /\ is_virtual(b.ret.iv[child].value)
        /\ InList(child, b.ret.st.unhandled)
        /\ \E k \in DOMAIN b.ret.iv[child].uses :
             b.ret.iv[child].uses[k] = b.first_use
        /\ next_use(b.ret.iv[b.current], 0).pos = -1

\* C32: in the blocked-register policy, a current without non-Any use
\* receives a Stack value and is not split; a current whose first non-Any
\* use is after its start and after use_pos of the selected register
\* receives a Stack value and is split at a position in
\* (start, first_use.pos], the new child being Virtual, in unhandled and
\* holding that first register use, so that the spilled part keeps no
\* non-Any use
BlockedSpills ==
  AtBlockedPolicy =>
    LET b == BlockedCall
    IN /\ BlockedNoUse(b) => SpilledWhole(b)
       /\ BlockedTooEarly(b) => SpilledAndSplit(b)

----------------------------------------------------------------------------
(* split_and_spill *)

\* the blocked-register policy of the next turn assigns a register
BlockedAssigns(b) ==
  b.first_use.pos # -1 /\ b.use_pos[b.reg] >= b.first_use.pos

\* the ranges of intervals x and y overlap
Overlap(x, y) ==
  \E i \in DOMAIN x.ranges : \E j \in DOMAIN y.ranges :
    RangeIntersection(x.ranges[i], y.ranges[j]) # -1

\* the intervals split_and_spill has to free the register from: the
\* active ones on reg and the inactive ones on reg that intersect current
ToSplit(b) ==
  Holding(b.c.iv, b.c.st.active, b.reg)
  \cup {id \in Holding(b.c.iv, b.c.st.inactive, b.reg) :
          Overlap(b.c.iv[id], b.ret.iv[b.current])}

\* where split_and_spill spills: at start if it is a gap or a clobber,
\* else right before it
SpillPos(b) ==
  IF clobbers(b.c.st.group, b.start) \/ is_gap(b.start) THEN b.start
  ELSE b.start - 1

\* the pieces the call created
NewPieces(b) == (Len(b.c.iv) + 1) .. Len(b.ret.iv)

\* interval id was cut at a gap or clobber at or before spill_pos and after
\* its last register use, the tail holds a stack slot, and the part of the
\* tail from its next non-Any use on is a Virtual piece in unhandled
SplitAndSpilled(b, id) ==
  LET old == b.c.iv[id]
      new == b.ret.iv
      group == b.c.st.group
      p == End(new[id])
      lu == last_use(old, SpillPos(b))
      nu == next_use(old, p)
  IN /\ p < End(old) /\ p <= SpillPos(b)
     /\ (lu.pos # -1 => lu.pos < p \/ (lu.pos = p /\ clobbers(group, p)))
     /\ is_gap(p) \/ clobbers(group, p)
     /\ new[id].value = old.value
     /\ \E t \in NewPieces(b) :
          /\ Start(new[t]) = p
          /\ new[t].value.tag = "Stack"
          /\ next_use(new[t], 0).pos = -1
          /\ nu.pos # -1 =>
               \E t2 \in NewPieces(b) :
                 /\ Start(new[t2]) = End(new[t])
                 /\ Start(new[t2]) <= nu.pos
                 /\ is_virtual(new[t2].value)
                 /\ InList(t2, b.ret.st.unhandled)
                 /\ \E k \in DOMAIN new[t2].uses : new[t2].uses[k] = nu

\* no other Register-valued piece on reg overlaps current
RegisterFreed(b) ==
  \A id \in DOMAIN b.ret.iv :
    (id # b.current /\ b.ret.iv[id].value = RegisterVal(b.c.st.group, b.reg)) =>
      ~Overlap(b.ret.iv[id], b.ret.iv[b.current])

\* C33: when the blocked-register policy assigns reg to current,
\* split_and_spill splits every active interval on reg and every inactive
\* interval on reg that intersects current at a gap or clobber at or just
\* before current's start (after the interval's last register use), gives
\* the tail a Stack value, splits a further Virtual tail off before the
\* tail's next non-Any use and queues it in unhandled; afterwards no other
\* Register-valued piece on reg overlaps current
SplitAndSpillFrees ==
  (AtBlockedPolicy /\ BlockedAssigns(BlockedCall)) =>
    LET b == BlockedCall
    IN /\ b.ret.status = "ok"
       /\ b.ret.iv[b.current].value = RegisterVal(b.c.st.group, b.reg)
       /\ \A id \in ToSplit(b) : SplitAndSpilled(b, id)
       /\ RegisterFreed(b)

----------------------------------------------------------------------------
(* The fixed physical intervals *)

\* the one-position ranges of the instructions that clobber group g, in
\* the order of their positions
ClobberRanges(g) ==
  LET ps == Ascending({p \in DOMAIN instructions : clobbers(g, p)})
  IN [k \in DOMAIN ps |-> LiveRange(ps[k], ps[k] + 1)]

\* build_ranges has run to its end (the walk of the first group is next
\* or under way, or allocate() is past the walks)
BuildRangesReturned == group_idx >= 1

\* the intervals flagged fixed
FixedIds == {id \in DOMAIN intervals : intervals[id].fixed}

\* the id allocate() gave the fixed interval of register r of group g (the
\* fixed intervals are created last, group by group)
FixedId(g, r) == PhysicalIds(Min(FixedIds) - 1)[g][r]

\* the fixed interval of register r of group g is as allocate() made it
FixedIntact(g, r) ==
  LET id == FixedId(g, r)
      i == intervals[id]
  IN /\ i.fixed
     /\ i.value = RegisterVal(g, r)
     /\ i.parent = 0 /\ i.children = <<>>
     /\ \A o \in DOMAIN intervals : intervals[o].parent # id
     /\ BuildRangesReturned => i.ranges = ClobberRanges(g)

\* C34: throughout allocation every fixed physical interval of group g
\* keeps the value Register(its own register), and once build_ranges has
\* returned its range list is exactly the one-position ranges [p, p+1) of the
\* positions p whose instruction clobbers g; the walker never splits or
\* spills a fixed interval, and the fixed intervals of distinct registers
\* never hold the same register
FixedIntervalsKept ==
  (pc # "prepare" /\ registers > 0) =>
    /\ Cardinality(FixedIds) = NumGroups * registers
    /\ \A id \in DOMAIN intervals : id < Min(FixedIds) => intervals[id].parent = 0
    /\ FixedIds = {FixedId(g, r) : g \in Groups, r \in Registers}
    /\ \A g \in Groups : \A r \in Registers : FixedIntact(g, r)
    /\ \A a, b \in FixedIds :
         a # b => intervals[a].value # intervals[b].value

\* allocation returned after the walk split and spilled intervals around a
\* call, with more than one register
FixedAcrossSplits ==
  /\ pc = "done" /\ result = "ok"
  /\ registers > 1
  /\ Len(ClobberRanges(0)) > 0
  /\ \E id \in DOMAIN intervals :
       intervals[id].parent # 0 /\ intervals[id].value.tag = "Stack"
  /\ \A r \in Registers : intervals[FixedId(0, r)].ranges = ClobberRanges(0)

----------------------------------------------------------------------------
(* to_phi *)

\* the output interval of the input that the first completed to_phi call
\* bound to phi (0: no input is bound yet)
FirstBound(phi) ==
  LET ins == graph.instructions[phi].inputs
  IN IF ins = <<>> THEN 0
     ELSE graph.instructions[graph.instructions[ins[1]].inputs[1]].output

\* the hint of the output interval of phi
HintOf(phi) == graph.hints[graph.instructions[phi].output]

\* a step that calls to_phi(input, phi) on block b, no call having failed
\* before, with a phi that is a Phi and an input that has an output
ToPhiStep(b, input, phi) ==
  LET out == graph.instructions[phi].output
      n == Len(graph.instructions[phi].inputs)
  IN /\ n = 0 => graph'.hints[out] = graph.instructions[input].output
     /\ n > 0 => /\ graph.hints[out] = FirstBound(phi)
                 /\ graph'.hints[out] = graph.hints[out]
     /\ n >= 2 => graph'.status = "panic"
     /\ (n < 2 /\ ~graph.blocks[b].ended) =>
          /\ graph'.status = "ok"
          /\ Len(graph'.instructions[phi].inputs) = n + 1
          /\ graph'.hints[out] = FirstBound(phi)'
     /\ \A o \in DOMAIN graph.hints : o # out => graph'.hints[o] = graph.hints[o]

\* C35: after any sequence of to_phi(input, phi) calls for the same phi the
\* hint of the phi's output interval is the output interval of the input
\* bound by the first call; later to_phi calls never change it, and a third
\* to_phi on the same phi fails by assertion
HintIsFirstInput ==
  [][\A e \in Calls' :
       (/\ e.ev = "to_phi" /\ graph.status = "ok"
        /\ graph.instructions[e.b].tag = "Phi"
        /\ graph.instructions[e.a].output # 0)
       => ToPhiStep(e.id, e.a, e.b)]_vars

\* a third to_phi on a phi has failed; the two inputs bound before and the
\* input of the failed call have outputs of their own, and the hint is the
\* output of the first
ThirdToPhiFailed ==
  /\ graph.status = "panic"
  /\ \E e \in Calls :
       /\ e.ev = "to_phi"
       /\ graph.instructions[e.b].tag = "Phi"
       /\ LET ins == graph.instructions[e.b].inputs
          IN /\ Len(ins) = 3
             /\ HintOf(e.b) = FirstBound(e.b)
             /\ graph.instructions[graph.instructions[ins[2]].inputs[1]].output
                  # HintOf(e.b)
             /\ graph.instructions[e.a].output \notin {0, HintOf(e.b)}

----------------------------------------------------------------------------
(* child_at *)

\* the intervals child_at is asked about: the roots that have ranges
RootsWithRanges ==
  {id \in DOMAIN intervals :
     intervals[id].parent = 0 /\ Len(intervals[id].ranges) > 0}

\* the pieces of root that have a range covering pos
Covering(root, pos) ==
  {id \in {root} \cup SeqRange(intervals[root].children) :
     Covers(intervals[id], pos)}

\* C36: child_at(parent, pos) returns the piece (the root or one of its
\* children) that has a range covering pos, and None when no piece has a
\* range covering pos, also when pos falls into a lifetime hole between two
\* ranges of one piece; at most one piece qualifies for any pos
ChildAtCovers ==
  BuildRangesReturned =>
    \A root \in RootsWithRanges : \A pos \in DOMAIN instructions :
      /\ Cardinality(Covering(root, pos)) <= 1
      /\ Covering(root, pos) # {} => child_at(intervals, root, pos) \in Covering(root, pos)
      /\ Covering(root, pos) = {} => child_at(intervals, root, pos) = 0

====
